---------------------------- MODULE Spec2Model ----------------------------
(***************************************************************************)
(* Model of the bank-statement analyser (backend/*.py).                    *)
(*                                                                         *)
(* Text is modelled as a sequence of one-character strings, so that        *)
(* upper-casing, stripping and substring search are computed the way the   *)
(* Python code computes them.  Amounts are integers in cents.  A date      *)
(* string is a record naming its textual form; parse_date turns it into a  *)
(* calendar date <<year, month, day>> or NoDate.                           *)
(***************************************************************************)
EXTENDS Integers, Sequences, FiniteSets, TLC

VARIABLES
  pc,            \* position of the request in the code
  files,         \* main.analyze: the parsed transactions of each uploaded file
  transactions,  \* the transaction list the current function works on
  subscriptions, \* result of detect_subscriptions
  comparison,    \* result of generate_month_comparison
  heuristic,     \* result of _heuristic_analysis
  claude,        \* what get_claude_analysis returned
  result,        \* the report returned by analyze_transactions
  calls,         \* collaborators called so far by analyze_transactions
  categorized,   \* the transactions after filter and categorize_transactions
  other,         \* second transaction list (prompt comparison)
  prompts        \* <<prompt of transactions, prompt of other>>

vars == <<pc, files, transactions, subscriptions, comparison, heuristic,
          claude, result, calls, categorized, other, prompts>>

----------------------------------------------------------------------------
(* Text *)

Digits == {"0","1","2","3","4","5","6","7","8","9"}

IsDigit(c) == c \in Digits

\* str.upper() of each letter
ToUpper ==
  "a" :> "A" @@ "b" :> "B" @@ "c" :> "C" @@ "d" :> "D" @@ "e" :> "E" @@ "f" :> "F"
  @@ "g" :> "G" @@ "h" :> "H" @@ "i" :> "I" @@ "j" :> "J" @@ "k" :> "K" @@ "l" :> "L"
  @@ "m" :> "M" @@ "n" :> "N" @@ "o" :> "O" @@ "p" :> "P" @@ "q" :> "Q" @@ "r" :> "R"
  @@ "s" :> "S" @@ "t" :> "T" @@ "u" :> "U" @@ "v" :> "V" @@ "w" :> "W" @@ "x" :> "X"
  @@ "y" :> "Y" @@ "z" :> "Z" @@ "A" :> "A" @@ "B" :> "B" @@ "C" :> "C" @@ "D" :> "D"
  @@ "E" :> "E" @@ "F" :> "F" @@ "G" :> "G" @@ "H" :> "H" @@ "I" :> "I" @@ "J" :> "J"
  @@ "K" :> "K" @@ "L" :> "L" @@ "M" :> "M" @@ "N" :> "N" @@ "O" :> "O" @@ "P" :> "P"
  @@ "Q" :> "Q" @@ "R" :> "R" @@ "S" :> "S" @@ "T" :> "T" @@ "U" :> "U" @@ "V" :> "V"
  @@ "W" :> "W" @@ "X" :> "X" @@ "Y" :> "Y" @@ "Z" :> "Z"

Letters == DOMAIN ToUpper

IsAlpha(c) == c \in Letters

IsSpace(c) == c = " "

\* \w of the re module
IsWord(c) == IsAlpha(c) \/ IsDigit(c) \/ c = "_"

UpperChar(c) == IF c \in Letters THEN ToUpper[c] ELSE c

\* str.upper()
Upper(s) == [i \in 1..Len(s) |-> UpperChar(s[i])]

\* str.strip()
Strip(s) ==
  LET keep == {i \in 1..Len(s) : ~IsSpace(s[i])}
      lo == CHOOSE i \in keep : \A j \in keep : i <= j
      hi == CHOOSE i \in keep : \A j \in keep : j <= i
  IN IF keep = {} THEN <<>> ELSE SubSeq(s, lo, hi)

\* kw in s
Contains(s, kw) ==
  \E i \in 1..(Len(s) - Len(kw) + 1) : \A j \in 1..Len(kw) : s[i + j - 1] = kw[j]

\* any(kw in s for kw in kws)
AnyKeyword(kws, s) == \E k \in 1..Len(kws) : Contains(s, kws[k])

\* str.isdigit()
IsAllDigits(s) == Len(s) > 0 /\ \A i \in 1..Len(s) : IsDigit(s[i])

\* s.replace(" ", "")
RemoveSpaces(s) == SelectSeq(s, LAMBDA c : c # " ")

----------------------------------------------------------------------------
(* Numbers: amounts are cents; round(x, 2) of a quotient of cents *)

RECURSIVE SumSeq(_)
SumSeq(s) == IF s = <<>> THEN 0 ELSE Head(s) + SumSeq(Tail(s))

MaxOf(S) == CHOOSE x \in S : \A y \in S : y <= x

MinOf(S) == CHOOSE x \in S : \A y \in S : x <= y

Range(s) == {s[i] : i \in 1..Len(s)}

\* round(a / b, 2) in cents for b > 0: the nearest cent.  On an exact tie
\* Python rounds the binary approximation of the quotient, which may go
\* either way; the amounts of this model are whole dollars, so that no
\* quotient the model rounds is a tie.
RoundDiv(a, b) ==
  LET q == a \div b
      r == a % b
  IN IF 2 * r < b THEN q
     ELSE IF 2 * r > b THEN q + 1
     ELSE IF q % 2 = 0 THEN q ELSE q + 1

----------------------------------------------------------------------------
(* Dates *)

NoDate == <<>>

IsLeap(y) == (y % 4 = 0 /\ y % 100 # 0) \/ y % 400 = 0

DaysInMonth(y, m) ==
  IF m = 2 THEN (IF IsLeap(y) THEN 29 ELSE 28)
  ELSE IF m \in {4, 6, 9, 11} THEN 30 ELSE 31

ValidDate(y, m, d) == m \in 1..12 /\ d >= 1 /\ d <= DaysInMonth(y, m)

RECURSIVE DaysBeforeMonth(_, _)
DaysBeforeMonth(y, m) ==
  IF m = 1 THEN 0 ELSE DaysBeforeMonth(y, m - 1) + DaysInMonth(y, m - 1)

\* datetime.toordinal(): the day number of a calendar date
Ordinal(dt) ==
  LET y == dt[1] - 1
  IN y * 365 + (y \div 4) - (y \div 100) + (y \div 400)
     + DaysBeforeMonth(dt[1], dt[2]) + dt[3]

\* (a - b).days
DaysBetween(a, b) == Ordinal(a) - Ordinal(b)

\* The textual forms of a date the model distinguishes:
\*   [form |-> "ymd", y, m, d]    "2025-01-31"     (%Y-%m-%d)
\*   [form |-> "slash", a, b, y]  "31/01/2025"     (%d/%m/%Y, then %m/%d/%Y)
\*   [form |-> "empty"]           "" or a missing date
\*   [form |-> "junk"]            text no format matches
Ymd(y, m, d) == [form |-> "ymd", a |-> y, b |-> m, c |-> d]

Slash(a, b, y) == [form |-> "slash", a |-> a, b |-> b, c |-> y]

EmptyDate == [form |-> "empty", a |-> 0, b |-> 0, c |-> 0]

JunkDate == [form |-> "junk", a |-> 0, b |-> 0, c |-> 0]

parse_date(s) ==
  IF s.form = "empty" THEN NoDate
  ELSE IF s.form = "ymd"
    THEN (IF ValidDate(s.a, s.b, s.c) THEN <<s.a, s.b, s.c>> ELSE NoDate)
  ELSE IF s.form = "slash"
    THEN (IF ValidDate(s.c, s.b, s.a) THEN <<s.c, s.b, s.a>>
          ELSE IF ValidDate(s.c, s.a, s.b) THEN <<s.c, s.a, s.b>>
          ELSE NoDate)
  ELSE NoDate

\* dates.sort(): insertion into an ascending list
RECURSIVE SortDates(_)
SortDates(ds) ==
  IF ds = <<>> THEN <<>>
  ELSE LET rest == SortDates(Tail(ds))
           d == Head(ds)
           before == SelectSeq(rest, LAMBDA x : Ordinal(x) <= Ordinal(d))
           after == SelectSeq(rest, LAMBDA x : Ordinal(x) > Ordinal(d))
       IN before \o <<d>> \o after

----------------------------------------------------------------------------
(* Keyword tables *)

\* src/backend/subscription_detector.py:60-72
KNOWN_SUBSCRIPTIONS ==
  <<
    <<"N","E","T","F","L","I","X">>, <<"S","P","O","T","I","F","Y">>, <<"H","U","L","U">>,
    <<"D","I","S","N","E","Y">>, <<"H","B","O">>, <<"A","M","A","Z","O","N"," ","P","R","I","M","E">>,
    <<"A","P","P","L","E"," ","M","U","S","I","C">>, <<"Y","O","U","T","U","B","E">>, <<"P","A","R","A","M","O","U","N","T">>,
    <<"P","E","A","C","O","C","K">>, <<"A","U","D","I","B","L","E">>, <<"A","D","O","B","E">>,
    <<"M","I","C","R","O","S","O","F","T"," ","3","6","5">>, <<"G","O","O","G","L","E"," ","O","N","E">>, <<"D","R","O","P","B","O","X">>,
    <<"I","C","L","O","U","D">>, <<"P","L","A","N","E","T"," ","F","I","T","N","E","S","S">>, <<"L","A"," ","F","I","T","N","E","S","S">>,
    <<"A","N","Y","T","I","M","E"," ","F","I","T","N","E","S","S">>, <<"E","Q","U","I","N","O","X">>, <<"G","Y","M">>,
    <<"F","I","T","N","E","S","S">>, <<"P","E","L","O","T","O","N">>, <<"O","N","L","Y","F","A","N","S">>,
    <<"P","A","T","R","E","O","N">>, <<"T","W","I","T","C","H">>, <<"A","F","T","E","R","P","A","Y">>,
    <<"K","L","A","R","N","A">>, <<"Z","I","P"," ","P","A","Y">>, <<"A","F","F","I","R","M">>,
    <<"H","E","A","D","S","P","A","C","E">>, <<"C","A","L","M">>, <<"N","O","O","M">>,
    <<"H","E","L","L","O"," ","F","R","E","S","H">>, <<"B","L","U","E"," ","A","P","R","O","N">>, <<"C","H","A","T","G","P","T">>,
    <<"C","L","A","U","D","E">>, <<"O","P","E","N","A","I">>, <<"C","O","M","M","S","E","C">>,
    <<"D","I","R","E","C","T"," ","D","E","B","I","T">>
  >>

\* src/backend/subscription_detector.py:75-75
RECURRING_PATTERNS ==
  <<
    <<"D","I","R","E","C","T"," ","D","E","B","I","T">>, <<"B","P","A","Y">>, <<"A","U","T","O","P","A","Y">>,
    <<"A","U","T","O"," ","P","A","Y">>
  >>

\* src/backend/analyzer.py:11-15
FEE_KEYWORDS ==
  <<
    <<"F","E","E">>, <<"C","H","A","R","G","E">>, <<"F","X">>,
    <<"O","V","E","R","D","R","A","F","T">>, <<"S","E","R","V","I","C","E">>, <<"A","T","M">>,
    <<"M","A","I","N","T","E","N","A","N","C","E">>, <<"F","O","R","E","I","G","N"," ","T","R","A","N","S","A","C","T","I","O","N">>, <<"M","O","N","T","H","L","Y"," ","F","E","E">>,
    <<"A","N","N","U","A","L"," ","F","E","E">>, <<"L","A","T","E"," ","F","E","E">>, <<"I","N","T","E","R","E","S","T"," ","C","H","A","R","G","E">>,
    <<"F","I","N","A","N","C","E"," ","C","H","A","R","G","E">>
  >>

\* src/backend/analyzer.py:18-22
FOOD_DELIVERY_KEYWORDS ==
  <<
    <<"U","B","E","R"," ","E","A","T","S">>, <<"U","B","E","R","E","A","T","S">>, <<"D","O","O","R","D","A","S","H">>,
    <<"M","E","N","U","L","O","G">>, <<"D","E","L","I","V","E","R","O","O">>, <<"G","R","U","B","H","U","B">>,
    <<"P","O","S","T","M","A","T","E","S">>, <<"C","A","V","I","A","R">>, <<"S","E","A","M","L","E","S","S">>,
    <<"J","U","S","T"," ","E","A","T">>, <<"S","K","I","P"," ","T","H","E"," ","D","I","S","H","E","S">>, <<"I","N","S","T","A","C","A","R","T">>,
    <<"G","O","P","U","F","F">>
  >>

\* src/backend/analyzer.py:25-28
EXCLUDE_KEYWORDS ==
  <<
    <<"B","A","L","A","N","C","E">>, <<"T","O","T","A","L">>, <<"O","P","E","N","I","N","G">>,
    <<"C","L","O","S","I","N","G">>, <<"B","R","O","U","G","H","T"," ","F","O","R","W","A","R","D">>, <<"C","A","R","R","I","E","D"," ","F","O","R","W","A","R","D">>,
    <<"A","V","A","I","L","A","B","L","E">>, <<"P","E","N","D","I","N","G">>, <<"C","R","E","D","I","T"," ","L","I","M","I","T">>
  >>

\* src/backend/categorizer.py:47-51
KW_INCOME ==
  <<
    <<"S","A","L","A","R","Y">>, <<"P","A","Y","R","O","L","L">>, <<"W","A","G","E">>,
    <<"D","I","R","E","C","T"," ","C","R","E","D","I","T">>, <<"E","M","P","L","O","Y","E","R">>, <<"I","N","T","E","R","E","S","T"," ","E","A","R","N","E","D">>,
    <<"D","I","V","I","D","E","N","D">>, <<"T","A","X"," ","R","E","F","U","N","D">>, <<"C","E","N","T","R","E","L","I","N","K">>,
    <<"P","E","N","S","I","O","N">>, <<"B","O","N","U","S">>, <<"C","O","M","M","I","S","S","I","O","N">>
  >>

\* src/backend/categorizer.py:52-56
KW_TRANSFERS ==
  <<
    <<"T","R","A","N","S","F","E","R"," ","T","O">>, <<"T","R","A","N","S","F","E","R"," ","F","R","O","M">>, <<"T","F","R"," ","T","O">>,
    <<"T","F","R"," ","F","R","O","M">>, <<"I","N","T","E","R","N","A","L"," ","T","R","A","N","S","F","E","R">>, <<"O","S","K","O">>,
    <<"B","P","A","Y">>, <<"P","A","Y"," ","A","N","Y","O","N","E">>, <<"Z","E","L","L","E">>,
    <<"V","E","N","M","O">>, <<"C","A","S","H","A","P","P">>, <<"B","E","T","W","E","E","N"," ","A","C","C","O","U","N","T","S">>
  >>

\* src/backend/categorizer.py:57-75
KW_SUBSCRIPTIONS ==
  <<
    <<"N","E","T","F","L","I","X">>, <<"S","P","O","T","I","F","Y">>, <<"H","U","L","U">>,
    <<"D","I","S","N","E","Y">>, <<"H","B","O">>, <<"A","M","A","Z","O","N"," ","P","R","I","M","E">>,
    <<"A","P","P","L","E"," ","M","U","S","I","C">>, <<"Y","O","U","T","U","B","E"," ","P","R","E","M","I","U","M">>, <<"P","A","R","A","M","O","U","N","T">>,
    <<"P","E","A","C","O","C","K">>, <<"A","U","D","I","B","L","E">>, <<"S","T","A","N">>,
    <<"B","I","N","G","E">>, <<"K","A","Y","O">>, <<"F","O","X","T","E","L">>,
    <<"C","R","U","N","C","H","Y","R","O","L","L">>, <<"D","A","Z","N">>, <<"A","D","O","B","E">>,
    <<"M","I","C","R","O","S","O","F","T"," ","3","6","5">>, <<"G","O","O","G","L","E"," ","O","N","E">>, <<"D","R","O","P","B","O","X">>,
    <<"I","C","L","O","U","D">>, <<"C","A","N","V","A">>, <<"N","O","T","I","O","N">>,
    <<"S","L","A","C","K">>, <<"Z","O","O","M">>, <<"G","I","T","H","U","B">>,
    <<"C","H","A","T","G","P","T">>, <<"C","L","A","U","D","E">>, <<"P","L","A","N","E","T"," ","F","I","T","N","E","S","S">>,
    <<"L","A"," ","F","I","T","N","E","S","S">>, <<"A","N","Y","T","I","M","E"," ","F","I","T","N","E","S","S">>, <<"E","Q","U","I","N","O","X">>,
    <<"C","R","O","S","S","F","I","T">>, <<"P","E","L","O","T","O","N">>, <<"B","E","A","C","H","B","O","D","Y">>,
    <<"G","Y","M"," ","M","E","M","B","E","R","S","H","I","P">>, <<"F","4","5">>, <<"O","R","A","N","G","E","T","H","E","O","R","Y">>,
    <<"B","A","R","R","Y","'","S">>, <<"O","N","L","Y","F","A","N","S">>, <<"P","A","T","R","E","O","N">>,
    <<"T","W","I","T","C","H">>, <<"S","U","B","S","T","A","C","K">>, <<"H","E","A","D","S","P","A","C","E">>,
    <<"C","A","L","M">>, <<"N","O","O","M">>, <<"W","E","I","G","H","T"," ","W","A","T","C","H","E","R","S">>,
    <<"A","M","A","Z","O","N"," ","S","U","B","S","C","R","I","B","E">>, <<"H","E","L","L","O"," ","F","R","E","S","H">>, <<"B","L","U","E"," ","A","P","R","O","N">>,
    <<"A","F","T","E","R","P","A","Y">>, <<"K","L","A","R","N","A">>, <<"Z","I","P"," ","P","A","Y">>,
    <<"A","F","F","I","R","M">>, <<"S","E","Z","Z","L","E">>, <<"H","U","M","M">>
  >>

\* src/backend/categorizer.py:76-81
KW_FEES ==
  <<
    <<"F","E","E">>, <<"C","H","A","R","G","E">>, <<"O","V","E","R","D","R","A","F","T">>,
    <<"S","E","R","V","I","C","E"," ","C","H","A","R","G","E">>, <<"M","A","I","N","T","E","N","A","N","C","E">>, <<"F","O","R","E","I","G","N"," ","T","R","A","N","S","A","C","T","I","O","N">>,
    <<"M","O","N","T","H","L","Y"," ","F","E","E">>, <<"A","N","N","U","A","L"," ","F","E","E">>, <<"L","A","T","E"," ","F","E","E">>,
    <<"I","N","T","E","R","E","S","T"," ","C","H","A","R","G","E">>, <<"F","I","N","A","N","C","E"," ","C","H","A","R","G","E">>, <<"A","T","M"," ","F","E","E">>,
    <<"A","C","C","O","U","N","T"," ","K","E","E","P","I","N","G">>, <<"D","I","S","H","O","N","O","U","R">>, <<"O","V","E","R","D","R","A","W","N">>,
    <<"N","S","F">>
  >>

\* src/backend/categorizer.py:82-90
KW_GROCERIES ==
  <<
    <<"W","O","O","L","W","O","R","T","H","S">>, <<"C","O","L","E","S">>, <<"A","L","D","I">>,
    <<"I","G","A">>, <<"C","O","S","T","C","O">>, <<"S","A","M","S"," ","C","L","U","B">>,
    <<"K","R","O","G","E","R">>, <<"S","A","F","E","W","A","Y">>, <<"P","U","B","L","I","X">>,
    <<"W","H","O","L","E"," ","F","O","O","D","S">>, <<"T","R","A","D","E","R"," ","J","O","E">>, <<"G","I","A","N","T"," ","E","A","G","L","E">>,
    <<"W","E","G","M","A","N","S">>, <<"F","O","O","D"," ","L","I","O","N">>, <<"H","A","R","R","I","S"," ","T","E","E","T","E","R">>,
    <<"S","P","R","O","U","T","S">>, <<"F","R","E","S","H"," ","M","A","R","K","E","T">>, <<"P","I","G","G","L","Y"," ","W","I","G","G","L","Y">>,
    <<"T","E","S","C","O">>, <<"S","A","I","N","S","B","U","R","Y">>, <<"A","S","D","A">>,
    <<"M","O","R","R","I","S","O","N","S">>, <<"L","I","D","L">>, <<"C","O","U","N","T","D","O","W","N">>,
    <<"P","A","K"," ","N"," ","S","A","V","E">>, <<"N","E","W"," ","W","O","R","L","D">>, <<"S","U","P","E","R","M","A","R","K","E","T">>,
    <<"G","R","O","C","E","R","Y">>, <<"M","A","R","K","E","T"," ","B","A","S","K","E","T">>
  >>

\* src/backend/categorizer.py:91-107
KW_DINING ==
  <<
    <<"M","C","D","O","N","A","L","D">>, <<"B","U","R","G","E","R"," ","K","I","N","G">>, <<"W","E","N","D","Y">>,
    <<"T","A","C","O"," ","B","E","L","L">>, <<"K","F","C">>, <<"C","H","I","C","K","-","F","I","L","-","A">>,
    <<"S","U","B","W","A","Y">>, <<"C","H","I","P","O","T","L","E">>, <<"P","A","N","D","A"," ","E","X","P","R","E","S","S">>,
    <<"D","O","M","I","N","O">>, <<"P","I","Z","Z","A"," ","H","U","T">>, <<"P","A","P","A"," ","J","O","H","N">>,
    <<"F","I","V","E"," ","G","U","Y","S">>, <<"S","H","A","K","E"," ","S","H","A","C","K">>, <<"I","N","-","N","-","O","U","T">>,
    <<"C","A","R","L","'","S"," ","J","R">>, <<"J","A","C","K"," ","I","N"," ","T","H","E"," ","B","O","X">>, <<"S","T","A","R","B","U","C","K","S">>,
    <<"D","U","N","K","I","N">>, <<"C","O","S","T","A">>, <<"P","R","E","T">>,
    <<"T","I","M"," ","H","O","R","T","O","N","S">>, <<"C","A","R","I","B","O","U">>, <<"G","L","O","R","I","A"," ","J","E","A","N">>,
    <<"C","O","F","F","E","E"," ","B","E","A","N">>, <<"U","B","E","R"," ","E","A","T","S">>, <<"U","B","E","R","E","A","T","S">>,
    <<"D","O","O","R","D","A","S","H">>, <<"M","E","N","U","L","O","G">>, <<"D","E","L","I","V","E","R","O","O">>,
    <<"G","R","U","B","H","U","B">>, <<"P","O","S","T","M","A","T","E","S">>, <<"S","E","A","M","L","E","S","S">>,
    <<"J","U","S","T"," ","E","A","T">>, <<"S","K","I","P"," ","T","H","E"," ","D","I","S","H","E","S">>, <<"I","N","S","T","A","C","A","R","T">>,
    <<"G","O","P","U","F","F">>, <<"C","A","V","I","A","R">>, <<"R","E","S","T","A","U","R","A","N","T">>,
    <<"C","A","F","E">>, <<"D","I","N","E","R">>, <<"P","I","Z","Z","E","R","I","A">>,
    <<"S","U","S","H","I">>, <<"T","H","A","I">>, <<"C","H","I","N","E","S","E">>,
    <<"I","N","D","I","A","N">>, <<"M","E","X","I","C","A","N">>, <<"I","T","A","L","I","A","N">>,
    <<"B","A","R">>, <<"P","U","B">>, <<"G","R","I","L","L">>
  >>

\* src/backend/categorizer.py:108-119
KW_TRANSPORT ==
  <<
    <<"U","B","E","R">>, <<"L","Y","F","T">>, <<"D","I","D","I">>,
    <<"O","L","A">>, <<"G","R","A","B">>, <<"B","O","L","T">>,
    <<"T","A","X","I">>, <<"C","A","B">>, <<"S","H","E","L","L">>,
    <<"B","P">>, <<"C","H","E","V","R","O","N">>, <<"E","X","X","O","N">>,
    <<"M","O","B","I","L">>, <<"T","E","X","A","C","O">>, <<"C","A","L","T","E","X">>,
    <<"7","-","E","L","E","V","E","N"," ","G","A","S">>, <<"S","P","E","E","D","W","A","Y">>, <<"W","A","W","A">>,
    <<"R","A","C","E","T","R","A","C">>, <<"P","E","T","R","O","L">>, <<"F","U","E","L">>,
    <<"G","A","S"," ","S","T","A","T","I","O","N">>, <<"P","A","R","K","I","N","G">>, <<"P","A","R","K">>,
    <<"M","E","T","E","R">>, <<"T","O","L","L">>, <<"E","-","T","A","G">>,
    <<"E","T","O","L","L">>, <<"L","I","N","K","T">>, <<"T","R","A","N","S","I","T">>,
    <<"M","E","T","R","O">>, <<"S","U","B","W","A","Y">>, <<"B","U","S">>,
    <<"T","R","A","I","N">>, <<"R","A","I","L">>, <<"M","Y","K","I">>,
    <<"O","P","A","L">>, <<"G","O"," ","C","A","R","D">>, <<"C","L","I","P","P","E","R">>,
    <<"C","A","R"," ","W","A","S","H">>, <<"A","U","T","O"," ","R","E","P","A","I","R">>, <<"M","E","C","H","A","N","I","C">>,
    <<"J","I","F","F","Y"," ","L","U","B","E">>
  >>

\* src/backend/categorizer.py:120-132
KW_SHOPPING ==
  <<
    <<"A","M","A","Z","O","N">>, <<"E","B","A","Y">>, <<"E","T","S","Y">>,
    <<"W","A","L","M","A","R","T">>, <<"T","A","R","G","E","T">>, <<"B","E","S","T"," ","B","U","Y">>,
    <<"K","M","A","R","T">>, <<"B","I","G"," ","W">>, <<"M","Y","E","R">>,
    <<"D","A","V","I","D"," ","J","O","N","E","S">>, <<"M","A","C","Y","'","S">>, <<"N","O","R","D","S","T","R","O","M">>,
    <<"J","C"," ","P","E","N","N","E","Y">>, <<"K","O","H","L","'","S">>, <<"T","J"," ","M","A","X","X">>,
    <<"R","O","S","S">>, <<"M","A","R","S","H","A","L","L","S">>, <<"B","U","R","L","I","N","G","T","O","N">>,
    <<"I","K","E","A">>, <<"H","O","M","E"," ","D","E","P","O","T">>, <<"L","O","W","E","'","S">>,
    <<"B","U","N","N","I","N","G","S">>, <<"M","I","T","R","E"," ","1","0">>, <<"O","F","F","I","C","E","W","O","R","K","S">>,
    <<"S","T","A","P","L","E","S">>, <<"O","F","F","I","C","E"," ","D","E","P","O","T">>, <<"A","P","P","L","E"," ","S","T","O","R","E">>,
    <<"M","I","C","R","O","S","O","F","T"," ","S","T","O","R","E">>, <<"N","I","K","E">>, <<"A","D","I","D","A","S">>,
    <<"Z","A","R","A">>, <<"H","&","M">>, <<"U","N","I","Q","L","O">>,
    <<"G","A","P">>, <<"O","L","D"," ","N","A","V","Y">>, <<"F","O","R","E","V","E","R"," ","2","1">>,
    <<"S","H","E","I","N">>, <<"A","S","O","S">>, <<"S","E","P","H","O","R","A">>,
    <<"U","L","T","A">>, <<"B","A","T","H"," ","&"," ","B","O","D","Y">>, <<"L","U","S","H">>,
    <<"C","H","E","M","I","S","T">>, <<"C","V","S">>, <<"W","A","L","G","R","E","E","N","S">>,
    <<"R","I","T","E"," ","A","I","D">>, <<"P","R","I","C","E","L","I","N","E">>
  >>

\* src/backend/categorizer.py:133-144
KW_UTILITIES ==
  <<
    <<"E","L","E","C","T","R","I","C">>, <<"P","O","W","E","R">>, <<"E","N","E","R","G","Y">>,
    <<"G","A","S"," ","B","I","L","L">>, <<"W","A","T","E","R"," ","B","I","L","L">>, <<"A","G","L">>,
    <<"O","R","I","G","I","N">>, <<"E","N","E","R","G","Y"," ","A","U","S","T","R","A","L","I","A">>, <<"A","L","I","N","T","A">>,
    <<"P","G","&","E">>, <<"C","O","N"," ","E","D","I","S","O","N">>, <<"D","U","K","E"," ","E","N","E","R","G","Y">>,
    <<"S","O","U","T","H","E","R","N"," ","C","O","M","P","A","N","Y">>, <<"I","N","T","E","R","N","E","T">>, <<"B","R","O","A","D","B","A","N","D">>,
    <<"N","B","N">>, <<"C","O","M","C","A","S","T">>, <<"X","F","I","N","I","T","Y">>,
    <<"A","T","&","T">>, <<"V","E","R","I","Z","O","N">>, <<"T","-","M","O","B","I","L","E">>,
    <<"S","P","R","I","N","T">>, <<"T","E","L","S","T","R","A">>, <<"O","P","T","U","S">>,
    <<"V","O","D","A","F","O","N","E">>, <<"P","H","O","N","E"," ","B","I","L","L">>, <<"M","O","B","I","L","E"," ","P","L","A","N">>,
    <<"C","E","L","L"," ","P","H","O","N","E">>, <<"I","N","S","U","R","A","N","C","E">>, <<"G","E","I","C","O">>,
    <<"S","T","A","T","E"," ","F","A","R","M">>, <<"A","L","L","S","T","A","T","E">>, <<"P","R","O","G","R","E","S","S","I","V","E">>,
    <<"N","R","M","A">>, <<"R","A","C","V">>, <<"R","A","C","Q">>,
    <<"A","A","M","I">>, <<"S","U","N","C","O","R","P">>, <<"R","E","N","T">>,
    <<"M","O","R","T","G","A","G","E">>, <<"H","O","M","E"," ","L","O","A","N">>, <<"P","R","O","P","E","R","T","Y">>,
    <<"C","O","U","N","C","I","L">>, <<"R","A","T","E","S">>, <<"S","T","R","A","T","A">>
  >>

\* src/backend/categorizer.py:145-152
KW_HEALTH ==
  <<
    <<"P","H","A","R","M","A","C","Y">>, <<"D","O","C","T","O","R">>, <<"M","E","D","I","C","A","L">>,
    <<"H","O","S","P","I","T","A","L">>, <<"C","L","I","N","I","C">>, <<"D","E","N","T","A","L">>,
    <<"D","E","N","T","I","S","T">>, <<"O","P","T","O","M","E","T","R","I","S","T">>, <<"V","I","S","I","O","N">>,
    <<"E","Y","E">>, <<"P","H","Y","S","I","O">>, <<"C","H","I","R","O","P","R","A","C","T","O","R">>,
    <<"M","A","S","S","A","G","E">>, <<"S","P","A">>, <<"V","I","T","A","M","I","N">>,
    <<"S","U","P","P","L","E","M","E","N","T">>, <<"G","N","C">>, <<"M","E","D","I","B","A","N","K">>,
    <<"B","U","P","A">>, <<"N","I","B">>, <<"H","C","F">>,
    <<"A","H","S","A">>, <<"U","N","I","T","E","D"," ","H","E","A","L","T","H">>, <<"C","I","G","N","A">>,
    <<"A","E","T","N","A">>, <<"H","U","M","A","N","A">>, <<"K","A","I","S","E","R">>
  >>

\* src/backend/categorizer.py:153-163
KW_ENTERTAINMENT ==
  <<
    <<"C","I","N","E","M","A">>, <<"M","O","V","I","E">>, <<"T","H","E","A","T","R","E">>,
    <<"T","H","E","A","T","E","R">>, <<"A","M","C">>, <<"R","E","G","A","L">>,
    <<"E","V","E","N","T"," ","C","I","N","E","M","A","S">>, <<"H","O","Y","T","S">>, <<"V","I","L","L","A","G","E">>,
    <<"C","O","N","C","E","R","T">>, <<"T","I","C","K","E","T">>, <<"T","I","C","K","E","T","M","A","S","T","E","R">>,
    <<"L","I","V","E"," ","N","A","T","I","O","N">>, <<"E","V","E","N","T","B","R","I","T","E">>, <<"S","T","U","B","H","U","B">>,
    <<"S","T","E","A","M">>, <<"P","L","A","Y","S","T","A","T","I","O","N">>, <<"X","B","O","X">>,
    <<"N","I","N","T","E","N","D","O">>, <<"E","P","I","C"," ","G","A","M","E","S">>, <<"A","P","P"," ","S","T","O","R","E">>,
    <<"G","O","O","G","L","E"," ","P","L","A","Y">>, <<"I","T","U","N","E","S">>, <<"B","O","O","K">>,
    <<"K","I","N","D","L","E">>, <<"A","U","D","I","B","L","E">>, <<"B","A","R","N","E","S"," ","N","O","B","L","E">>,
    <<"B","O","W","L","I","N","G">>, <<"A","R","C","A","D","E">>, <<"M","I","N","I"," ","G","O","L","F">>,
    <<"L","A","S","E","R"," ","T","A","G">>, <<"M","U","S","E","U","M">>, <<"Z","O","O">>,
    <<"A","Q","U","A","R","I","U","M">>, <<"T","H","E","M","E"," ","P","A","R","K">>
  >>

\* src/backend/categorizer.py:164-172
KW_TRAVEL ==
  <<
    <<"A","I","R","L","I","N","E">>, <<"F","L","I","G","H","T">>, <<"Q","A","N","T","A","S">>,
    <<"V","I","R","G","I","N">>, <<"J","E","T","S","T","A","R">>, <<"R","E","X">>,
    <<"U","N","I","T","E","D">>, <<"D","E","L","T","A">>, <<"A","M","E","R","I","C","A","N">>,
    <<"S","O","U","T","H","W","E","S","T">>, <<"A","L","A","S","K","A">>, <<"B","R","I","T","I","S","H"," ","A","I","R","W","A","Y","S">>,
    <<"L","U","F","T","H","A","N","S","A">>, <<"E","M","I","R","A","T","E","S">>, <<"S","I","N","G","A","P","O","R","E">>,
    <<"H","O","T","E","L">>, <<"M","O","T","E","L">>, <<"A","I","R","B","N","B">>,
    <<"V","R","B","O">>, <<"B","O","O","K","I","N","G",".","C","O","M">>, <<"E","X","P","E","D","I","A">>,
    <<"M","A","R","R","I","O","T","T">>, <<"H","I","L","T","O","N">>, <<"H","Y","A","T","T">>,
    <<"I","H","G">>, <<"W","Y","N","D","H","A","M">>, <<"B","E","S","T"," ","W","E","S","T","E","R","N">>,
    <<"C","A","R"," ","R","E","N","T","A","L">>, <<"H","E","R","T","Z">>, <<"A","V","I","S">>,
    <<"E","N","T","E","R","P","R","I","S","E">>, <<"B","U","D","G","E","T">>, <<"A","L","A","M","O">>,
    <<"C","R","U","I","S","E">>, <<"C","A","R","N","I","V","A","L">>, <<"R","O","Y","A","L"," ","C","A","R","I","B","B","E","A","N">>
  >>

----------------------------------------------------------------------------
(* Merchant normalisation *)

\* Number of characters from position i on that belong to the class C
RunLen(s, i, C) ==
  LET ends == {j \in (i - 1)..Len(s) : \A k \in i..j : s[k] \in C}
  IN MaxOf(ends) - i + 1

WordChars == Letters \cup Digits \cup {"_"}

CharAt(s, i) == IF i >= 1 /\ i <= Len(s) THEN s[i] ELSE ""

\* \b between position i - 1 and position i
Boundary(s, i) == IsWord(CharAt(s, i - 1)) # IsWord(CharAt(s, i))

StartsAt(s, i, w) == i + Len(w) - 1 <= Len(s) /\ SubSeq(s, i, i + Len(w) - 1) = w

\* \bWORD\b
WordPat(w) == [kind |-> "word", w |-> w]

\* \bWORD[opt]?\s*\w+
TagPat(w, opt) == [kind |-> "tag", w |-> w, opt |-> opt]

NOISE_PATTERNS ==
  << WordPat(<<"P","O","S">>), WordPat(<<"E","F","T","P","O","S">>),
     WordPat(<<"V","I","S","A">>),
     WordPat(<<"M","A","S","T","E","R","C","A","R","D">>),
     WordPat(<<"D","E","B","I","T">>), WordPat(<<"C","A","R","D">>),
     WordPat(<<"P","U","R","C","H","A","S","E">>),
     WordPat(<<"P","A","Y","M","E","N","T">>),
     WordPat(<<"A","U">>), WordPat(<<"A","U","S">>),
     WordPat(<<"U","S","A">>), WordPat(<<"G","B","R">>),
     WordPat(<<"U","S","D">>), WordPat(<<"A","U","D">>),
     WordPat(<<"N","Z","D">>), WordPat(<<"P","T","Y">>),
     WordPat(<<"L","T","D">>), WordPat(<<"I","N","C">>),
     WordPat(<<"L","L","C">>), WordPat(<<"C","O","R","P">>),
     [kind |-> "longnum"],
     [kind |-> "stars"],
     [kind |-> "hashnum"],
     TagPat(<<"R","E","F">>, {":"}),
     TagPat(<<"C","O","N","F">>, {":", "#"}),
     TagPat(<<"T","R","A","N","S">>, {":", "#"}),
     [kind |-> "xx"],
     [kind |-> "shortdate"] >>

\* Length of the match of pattern p that starts at position i of s, 0 if none
MatchLen(p, s, i) ==
  IF p.kind = "word" THEN
    IF Boundary(s, i) /\ StartsAt(s, i, p.w) /\ Boundary(s, i + Len(p.w))
      THEN Len(p.w) ELSE 0
  ELSE IF p.kind = "longnum" THEN       \* \b\d{4,}\b
    LET n == RunLen(s, i, Digits)
    IN IF Boundary(s, i) /\ n >= 4 /\ Boundary(s, i + n) THEN n ELSE 0
  ELSE IF p.kind = "digits4" THEN       \* \d{4,}
    LET n == RunLen(s, i, Digits)
    IN IF n >= 4 THEN n ELSE 0
  ELSE IF p.kind = "stars" THEN         \* \*+
    RunLen(s, i, {"*"})
  ELSE IF p.kind = "hashnum" THEN       \* #\d+
    LET n == RunLen(s, i + 1, Digits)
    IN IF CharAt(s, i) = "#" /\ n >= 1 THEN 1 + n ELSE 0
  ELSE IF p.kind = "tag" THEN           \* \bWORD[opt]?\s*\w+
    LET a == i + Len(p.w)
        b == IF CharAt(s, a) \in p.opt THEN a + 1 ELSE a
        c == b + RunLen(s, b, {" "})
        n == RunLen(s, c, WordChars)
    IN IF Boundary(s, i) /\ StartsAt(s, i, p.w) /\ n >= 1
         THEN c + n - i ELSE 0
  ELSE IF p.kind = "xx" THEN            \* \bXX+\d*
    LET n == RunLen(s, i, {"X"})
    IN IF Boundary(s, i) /\ n >= 2
         THEN n + RunLen(s, i + n, Digits) ELSE 0
  ELSE IF p.kind = "shortdate" THEN     \* \b\d{2}/\d{2}\b
    IF /\ Boundary(s, i)
       /\ IsDigit(CharAt(s, i)) /\ IsDigit(CharAt(s, i + 1))
       /\ CharAt(s, i + 2) = "/"
       /\ IsDigit(CharAt(s, i + 3)) /\ IsDigit(CharAt(s, i + 4))
       /\ Boundary(s, i + 5)
      THEN 5 ELSE 0
  ELSE IF p.kind = "spaces" THEN        \* \s+
    RunLen(s, i, {" "})
  ELSE 0

\* re.sub(p, repl, s): the scan of s from the state st, which holds the
\* position i and the output so far, for at most k steps, the first half of
\* the steps before the second.  A step replaces the match that starts at
\* position i, or copies s[i].
RECURSIVE ReSubFrom(_, _, _, _, _)
ReSubFrom(p, repl, s, st, k) ==
  IF st.i > Len(s) THEN st
  ELSE IF k <= 1 THEN
    LET n == MatchLen(p, s, st.i)
    IN IF n > 0 THEN [i |-> st.i + n, out |-> st.out \o repl]
       ELSE [i |-> st.i + 1, out |-> Append(st.out, s[st.i])]
  ELSE ReSubFrom(p, repl, s,
                 ReSubFrom(p, repl, s, st, k \div 2), k - k \div 2)

ReSub(p, repl, s) ==
  ReSubFrom(p, repl, s, [i |-> 1, out |-> <<>>], Len(s)).out

\* the loop over NOISE_PATTERNS, patterns lo..hi in order: the first half of
\* them, then the second half on what the first half left.  re.sub leaves
\* the empty text empty.
RECURSIVE StripNoise(_, _, _)
StripNoise(s, lo, hi) ==
  IF s = <<>> THEN <<>>
  ELSE IF lo = hi THEN ReSub(NOISE_PATTERNS[lo], <<>>, s)
  ELSE LET mid == (lo + hi) \div 2
       IN StripNoise(StripNoise(s, lo, mid), mid + 1, hi)

\* re.sub(r'\s+', ' ', s)
CollapseSpaces(s) == ReSub([kind |-> "spaces"], <<" ">>, s)

IsAlnum(c) == IsAlpha(c) \/ IsDigit(c)

\* re.sub(r'^[^a-zA-Z0-9]+|[^a-zA-Z0-9]+$', '', s)
TrimPunctuation(s) ==
  LET keep == {i \in 1..Len(s) : IsAlnum(s[i])}
  IN IF keep = {} THEN <<>> ELSE SubSeq(s, MinOf(keep), MaxOf(keep))

\* categorizer.normalize_merchant
normalize_merchant(merchant) ==
  IF merchant = <<>> THEN <<>>
  ELSE LET normalized ==
             TrimPunctuation(Strip(CollapseSpaces(
               StripNoise(Strip(Upper(merchant)),
                          1, Len(NOISE_PATTERNS)))))
       IN IF normalized # <<>> THEN normalized ELSE Strip(Upper(merchant))

PROCESSOR_PREFIXES ==
  << <<"S","Q"," ","*">>, <<"S","P"," ">>,
     <<"P","A","Y","P","A","L"," ","*">>,
     <<"S","T","R","I","P","E"," ","*">>, <<"P","P","*">> >>

RECURSIVE DropPrefixes(_, _)
DropPrefixes(s, k) ==
  IF s = <<>> \/ k > Len(PROCESSOR_PREFIXES) THEN s
  ELSE LET p == PROCESSOR_PREFIXES[k]
       IN DropPrefixes(IF StartsAt(s, 1, p)
                         THEN SubSeq(s, Len(p) + 1, Len(s)) ELSE s, k + 1)

\* parser.normalize_merchant
parser_normalize_merchant(merchant) ==
  Strip(DropPrefixes(
    CollapseSpaces(ReSub([kind |-> "digits4"], <<>>, Strip(Upper(merchant)))), 1))

----------------------------------------------------------------------------
(* Categorisation *)

NoCategory == "<none>"

\* Category, in the order of CATEGORY_KEYWORDS
CategoryOrder ==
  << [name |-> "Income", kws |-> KW_INCOME],
     [name |-> "Transfers", kws |-> KW_TRANSFERS],
     [name |-> "Subscriptions", kws |-> KW_SUBSCRIPTIONS],
     [name |-> "Fees", kws |-> KW_FEES],
     [name |-> "Groceries", kws |-> KW_GROCERIES],
     [name |-> "Dining & Delivery", kws |-> KW_DINING],
     [name |-> "Transport", kws |-> KW_TRANSPORT],
     [name |-> "Shopping", kws |-> KW_SHOPPING],
     [name |-> "Utilities & Bills", kws |-> KW_UTILITIES],
     [name |-> "Health & Fitness", kws |-> KW_HEALTH],
     [name |-> "Entertainment", kws |-> KW_ENTERTAINMENT],
     [name |-> "Travel", kws |-> KW_TRAVEL] >>

\* The last matching category instead of the first
LastCategory(merchant, amount, description) ==
  LET search_text == Upper(merchant \o <<" ">> \o description)
      hits == {k \in 1..Len(CategoryOrder) :
                 AnyKeyword(CategoryOrder[k].kws, search_text)}
  IN IF hits # {} THEN <<CategoryOrder[MaxOf(hits)].name, 90>>
     ELSE IF amount < 0 THEN <<"Income", 50>>
     ELSE IF amount < 1500 THEN <<"Other", 30>>
     ELSE <<"Other", 20>>

\* categorize_transaction: <<category, confidence in hundredths>>
categorize_transaction(merchant, amount, description) ==
  LET search_text == Upper(merchant \o <<" ">> \o description)
      hits == {k \in 1..Len(CategoryOrder) :
                 AnyKeyword(CategoryOrder[k].kws, search_text)}
  IN IF hits # {} THEN <<CategoryOrder[MinOf(hits)].name, 90>>
     ELSE IF amount < 0 THEN <<"Income", 50>>
     ELSE IF amount < 1500 THEN <<"Other", 30>>
     ELSE <<"Other", 20>>

----------------------------------------------------------------------------
(* Transactions *)

\* A transaction as the parser emits it: no category, no normalized merchant
RawTxn(date, merchant, amount) ==
  [date |-> date, merchant |-> merchant, amount |-> amount,
   normalized_merchant |-> <<>>, category |-> NoCategory]

\* What the amount of a transaction is: a number, None, nan, or no field at
\* all.  The amount field of the model is 0 when it is no number, which is
\* also what txn.get("amount", 0) gives for a missing field.
AmountIs(txn) ==
  IF "amount_is" \in DOMAIN txn THEN txn.amount_is ELSE "number"

\* A transaction whose amount is no number
OddTxn(date, merchant, amount_is) ==
  [date |-> date, merchant |-> merchant, amount |-> 0,
   normalized_merchant |-> <<>>, category |-> NoCategory,
   amount_is |-> amount_is]

\* txn.get("normalized_merchant") or txn.get("merchant", "")
MerchantOrNormalized(txn) ==
  IF txn.normalized_merchant # <<>> THEN txn.normalized_merchant
  ELSE txn.merchant

\* The distinct values of s in the order of their first occurrence (dict keys)
FirstOccurrences(s) ==
  LET first == {i \in 1..Len(s) : \A j \in 1..(i - 1) : s[j] # s[i]}
      f[i \in 0..Len(s)] ==
        IF i = 0 THEN <<>>
        ELSE IF i \in first THEN Append(f[i - 1], s[i]) ELSE f[i - 1]
  IN f[Len(s)]

\* list.sort(key=lambda x: x[field], reverse=True): stable, descending
SortDescBy(s, field) ==
  LET f[i \in 0..Len(s)] ==
        IF i = 0 THEN <<>>
        ELSE LET x == s[i]
                 before == SelectSeq(f[i - 1], LAMBDA y : y[field] >= x[field])
                 after == SelectSeq(f[i - 1], LAMBDA y : y[field] < x[field])
             IN before \o <<x>> \o after
  IN f[Len(s)]

----------------------------------------------------------------------------
(* subscription_detector.detect_subscriptions *)

\* detect_subscriptions, lines 80-84: the group key of a transaction
SubscriptionKey(txn) == Upper(MerchantOrNormalized(txn))

\* lines 78-84: merchant_groups keys, in insertion order
SubscriptionGroups(txns) ==
  FirstOccurrences(
    SelectSeq([i \in 1..Len(txns) |-> SubscriptionKey(txns[i])],
              LAMBDA k : k # <<>>))

GroupTxns(txns, merchant) ==
  SelectSeq(txns, LAMBDA t : MerchantOrNormalized(t) # <<>>
                             /\ SubscriptionKey(t) = merchant)

\* lines 95-96: the parseable dates of a group
ParsedDates(txns) ==
  SelectSeq([i \in 1..Len(txns) |-> parse_date(txns[i].date)],
            LAMBDA d : d # NoDate)

\* lines 105-110: within $2 or 5% of the average (amounts in cents)
IsConsistent(amounts) ==
  LET variance == MaxOf(Range(amounts)) - MinOf(Range(amounts))
      total == SumSeq(amounts)
  IN \/ variance <= 200
     \/ (total > 0 /\ variance * Len(amounts) * 100 <= 5 * total)

\* lines 117-120: within $10 or 15% of the average
IsLooselyConsistent(amounts) ==
  LET variance == MaxOf(Range(amounts)) - MinOf(Range(amounts))
      total == SumSeq(amounts)
  IN \/ variance <= 1000
     \/ (total > 0 /\ variance * Len(amounts) * 100 <= 15 * total)

\* line 127: the gaps, in days, between consecutive sorted dates
Intervals(dates) ==
  LET sorted == SortDates(dates)
  IN [i \in 1..(Len(dates) - 1) |-> DaysBetween(sorted[i + 1], sorted[i])]

\* Periodic when every single gap is of 25 to 35 days
EveryGapMonthly(dates) ==
  /\ Len(dates) >= 2
  /\ \A i \in 1..(Len(dates) - 1) :
       Intervals(dates)[i] >= 25 /\ Intervals(dates)[i] <= 35

\* lines 123-130: 25 <= sum(intervals) / len(intervals) <= 35
IsPeriodic(dates) ==
  /\ Len(dates) >= 2
  /\ LET intervals == Intervals(dates)
     IN /\ 25 * Len(intervals) <= SumSeq(intervals)
        /\ SumSeq(intervals) <= 35 * Len(intervals)

\* lines 133-153: <<confidence in hundredths, reason>>
LadderSingleFirst(is_known_sub, is_recurring_pattern, n, is_consistent, is_periodic, is_loosely_consistent) ==
  IF is_known_sub /\ n = 1 THEN <<60, "Known subscription (single charge)">>
  ELSE IF is_known_sub THEN <<95, "Known subscription service">>
  ELSE IF is_recurring_pattern /\ n >= 3 /\ is_periodic
    THEN <<90, "Recurring payment">>
  ELSE IF n >= 3 /\ is_consistent /\ is_periodic
    THEN <<85, "Recurring pattern">>
  ELSE IF is_recurring_pattern /\ n >= 3 /\ is_loosely_consistent
    THEN <<75, "Direct debit">>
  ELSE IF n >= 2 /\ is_consistent THEN <<70, "Consistent amounts">>
  ELSE <<0, "">>

LadderConsistentFirst(is_known_sub, is_recurring_pattern, n, is_consistent, is_periodic, is_loosely_consistent) ==
  IF is_known_sub THEN <<95, "Known subscription service">>
  ELSE IF n >= 2 /\ is_consistent THEN <<70, "Consistent amounts">>
  ELSE IF is_recurring_pattern /\ n >= 3 /\ is_periodic
    THEN <<90, "Recurring payment">>
  ELSE IF n >= 3 /\ is_consistent /\ is_periodic
    THEN <<85, "Recurring pattern">>
  ELSE IF is_recurring_pattern /\ n >= 3 /\ is_loosely_consistent
    THEN <<75, "Direct debit">>
  ELSE <<0, "">>

Ladder(is_known_sub, is_recurring_pattern, n, is_consistent, is_periodic, is_loosely_consistent) ==
  IF is_known_sub THEN <<95, "Known subscription service">>
  ELSE IF is_recurring_pattern /\ n >= 3 /\ is_periodic
    THEN <<90, "Recurring payment">>
  ELSE IF n >= 3 /\ is_consistent /\ is_periodic
    THEN <<85, "Recurring pattern">>
  ELSE IF is_recurring_pattern /\ n >= 3 /\ is_loosely_consistent
    THEN <<75, "Direct debit">>
  ELSE IF n >= 2 /\ is_consistent THEN <<70, "Consistent amounts">>
  ELSE IF is_known_sub \/ (n = 1 /\ is_known_sub)
    THEN <<60, "Known subscription (single charge)">>
  ELSE <<0, "">>

\* A test that lets any average through
EmitsAnyAverage(confidence, total) == confidence >= 50

\* line 156: confidence >= 0.5 and avg_amount > 0 (total is the sum of the
\* amounts, of the sign of their average)
Emits(confidence, total) == confidence >= 50 /\ total > 0

\* lines 88-167: the subscription a group yields, as a list of 0 or 1 entry
GroupSubscription(merchant, txns) ==
  LET counted == SelectSeq(txns, LAMBDA t : AmountIs(t) \notin {"none", "nan"})
      amounts == [i \in 1..Len(counted) |-> counted[i].amount]
      dates == ParsedDates(txns)
      total == SumSeq(amounts)
      verdict == Ladder(AnyKeyword(KNOWN_SUBSCRIPTIONS, merchant),
                        AnyKeyword(RECURRING_PATTERNS, merchant),
                        Len(txns), IsConsistent(amounts),
                        IsPeriodic(dates), IsLooselyConsistent(amounts))
  IN IF amounts = <<>> THEN <<>>
     ELSE IF Emits(verdict[1], total)
       THEN << [merchant |-> merchant,
                monthly_cost |-> RoundDiv(total, Len(amounts)),
                annual_cost |-> RoundDiv(total * 12, Len(amounts)),
                confidence |-> verdict[1],
                last_date |-> IF dates = <<>> THEN NoDate
                              ELSE SortDates(dates)[Len(dates)],
                occurrences |-> Len(txns),
                reason |-> verdict[2]] >>
     ELSE <<>>

RECURSIVE SubscriptionsOf(_, _)
SubscriptionsOf(txns, groups) ==
  IF groups = <<>> THEN <<>>
  ELSE GroupSubscription(Head(groups), GroupTxns(txns, Head(groups)))
         \o SubscriptionsOf(txns, Tail(groups))

\* Subscription detection that leaves the Income transactions out
SpendingSubscriptions(txns) ==
  LET spend == SelectSeq(txns, LAMBDA t : t.category # "Income")
  IN SortDescBy(SubscriptionsOf(spend, SubscriptionGroups(spend)), "monthly_cost")

detect_subscriptions(txns) ==
  SortDescBy(SubscriptionsOf(txns, SubscriptionGroups(txns)), "monthly_cost")

----------------------------------------------------------------------------
(* subscription_detector.detect_date_range, generate_month_comparison *)

\* Python's None, for the values that are records otherwise
None == [none |-> TRUE]

\* txn.get("category", "Other")
CategoryOrOther(txn) ==
  IF txn.category = NoCategory THEN "Other" ELSE txn.category

\* detect_date_range: days between the earliest and the latest parseable date
DaysCovered(txns) ==
  LET days == {Ordinal(d) : d \in Range(ParsedDates(txns))}
  IN IF days = {} THEN 0 ELSE MaxOf(days) - MinOf(days)

\* lines 215-230: the transactions that enter the monthly buckets
MonthlyTxns(txns) ==
  SelectSeq(txns, LAMBDA t : parse_date(t.date) # NoDate
                             /\ CategoryOrOther(t) # "Income")

\* date.strftime("%Y-%m"), as year * 100 + month
MonthKey(t) ==
  LET d == parse_date(t.date)
  IN d[1] * 100 + d[2]

MonthTotal(txns, key) ==
  SumSeq([i \in 1..Len(txns) |->
            IF MonthKey(txns[i]) = key THEN txns[i].amount ELSE 0])

MonthCategoryTotal(txns, key, cat) ==
  SumSeq([i \in 1..Len(txns) |->
            IF MonthKey(txns[i]) = key /\ CategoryOrOther(txns[i]) = cat
              THEN txns[i].amount ELSE 0])

\* A float that is nan
NaN == [nan |-> TRUE]

\* A sum is nan when one of its terms is
OrNaN(is_nan, x) == IF is_nan THEN NaN ELSE x

MonthIsNaN(txns, key) ==
  \E i \in 1..Len(txns) : MonthKey(txns[i]) = key /\ AmountIs(txns[i]) = "nan"

MonthCategoryIsNaN(txns, key, cat) ==
  \E i \in 1..Len(txns) :
    /\ MonthKey(txns[i]) = key
    /\ CategoryOrOther(txns[i]) = cat
    /\ AmountIs(txns[i]) = "nan"

\* line 227: monthly_data[month_key]["total"] += amount raises TypeError
\* when the amount is None; the span is tested before (line 205)
MonthComparisonRaises(txns) ==
  /\ ~(DaysCovered(txns) < 60)
  /\ \E i \in 1..Len(txns) :
       /\ parse_date(txns[i].date) # NoDate
       /\ CategoryOrOther(txns[i]) # "Income"
       /\ AmountIs(txns[i]) = "none"

MonthCategories(txns, key) ==
  {CategoryOrOther(txns[i]) : i \in {j \in 1..Len(txns) : MonthKey(txns[j]) = key}}

\* line 205: if days_covered < 60: return None
SpanTooShort(days_covered) == days_covered < 60

\* generate_month_comparison, when it does not raise.  top_changes and
\* spikes are kept as sets: the code fills them in the iteration order of a
\* Python set of category names.  The percentages are left out.  A nan
\* amount makes the sums it enters nan, and a comparison with nan is false.
generate_month_comparison(txns) ==
  LET monthly == MonthlyTxns(txns)
      months == {MonthKey(monthly[i]) : i \in 1..Len(monthly)}
      curr_month == MaxOf(months)
      prev_month == MaxOf(months \ {curr_month})
      PrevNaN(c) == MonthCategoryIsNaN(monthly, prev_month, c)
      CurrNaN(c) == MonthCategoryIsNaN(monthly, curr_month, c)
      changes ==
        {[category |-> c,
          previous |-> OrNaN(PrevNaN(c), MonthCategoryTotal(monthly, prev_month, c)),
          current |-> OrNaN(CurrNaN(c), MonthCategoryTotal(monthly, curr_month, c)),
          change |-> OrNaN(PrevNaN(c) \/ CurrNaN(c),
                           MonthCategoryTotal(monthly, curr_month, c)
                             - MonthCategoryTotal(monthly, prev_month, c))] :
           c \in MonthCategories(monthly, prev_month)
                   \cup MonthCategories(monthly, curr_month)}
  IN IF SpanTooShort(DaysCovered(txns)) THEN None
     ELSE IF Cardinality(months) < 2 THEN None
     ELSE [previous_month |-> prev_month,
           current_month |-> curr_month,
           previous_total |-> OrNaN(MonthIsNaN(monthly, prev_month),
                                    MonthTotal(monthly, prev_month)),
           current_total |-> OrNaN(MonthIsNaN(monthly, curr_month),
                                   MonthTotal(monthly, curr_month)),
           total_change |-> OrNaN(MonthIsNaN(monthly, prev_month)
                                    \/ MonthIsNaN(monthly, curr_month),
                                  MonthTotal(monthly, curr_month)
                                    - MonthTotal(monthly, prev_month)),
           category_changes |-> changes,
           spikes |-> {c \in changes :
                         /\ ~PrevNaN(c.category)
                         /\ ~CurrNaN(c.category)
                         /\ c.change > 2000
                         /\ IF c.previous > 0
                              THEN c.change * 10000 >= 3005 * c.previous
                              ELSE c.current > 0},
           months_analyzed |-> Cardinality(months)]

----------------------------------------------------------------------------
(* categorizer.categorize_transactions, generate_category_summary *)

\* lines 252-265: a transaction gets category and normalized_merchant (the
\* confidence and the reason of the category are not kept)
Enriched(txn) ==
  [txn EXCEPT
     !.category = categorize_transaction(txn.merchant, txn.amount, <<>>)[1],
     !.normalized_merchant = normalize_merchant(txn.merchant)]

categorize_transactions(txns) ==
  IF txns = <<>> THEN <<>>
  ELSE [i \in 1..Len(txns) |-> Enriched(txns[i])]

Take(s, n) == IF Len(s) <= n THEN s ELSE SubSeq(s, 1, n)

\* lines 304-313: the top 3 merchants of a category
TopMerchants(txns) ==
  LET names == FirstOccurrences([i \in 1..Len(txns) |-> MerchantOrNormalized(txns[i])])
      totals == [k \in 1..Len(names) |->
                   [name |-> names[k],
                    total |-> SumSeq([i \in 1..Len(txns) |->
                                IF MerchantOrNormalized(txns[i]) = names[k]
                                  THEN txns[i].amount ELSE 0])]]
  IN Take(SortDescBy(totals, "total"), 3)

\* generate_category_summary; percent is in tenths of a percent
generate_category_summary(txns) ==
  LET spend == SelectSeq(txns, LAMBDA t : CategoryOrOther(t) # "Income")
      total_spend == SumSeq([i \in 1..Len(spend) |-> spend[i].amount])
      cats == FirstOccurrences([i \in 1..Len(spend) |-> CategoryOrOther(spend[i])])
      OfCat(c) == SelectSeq(spend, LAMBDA t : CategoryOrOther(t) = c)
      TotalOf(c) == SumSeq([i \in 1..Len(OfCat(c)) |-> OfCat(c)[i].amount])
      summary == [k \in 1..Len(cats) |->
                    [category |-> cats[k],
                     total |-> TotalOf(cats[k]),
                     percent |-> IF total_spend > 0
                                   THEN RoundDiv(TotalOf(cats[k]) * 1000, total_spend)
                                   ELSE 0,
                     transaction_count |-> Len(OfCat(cats[k])),
                     top_merchants |-> TopMerchants(OfCat(cats[k]))]]
  IN SortDescBy(summary, "total")

----------------------------------------------------------------------------
(* analyzer: filter and heuristic analysis *)

\* _filter_transactions, lines 51-67: the transactions that are kept.
\* `amount <= 0` is false for nan, so a nan amount is not skipped.
KeepsTxn(t) ==
  LET merchant == Upper(t.merchant)
  IN /\ ~(AmountIs(t) # "nan" /\ t.amount <= 0)
     /\ ~AnyKeyword(EXCLUDE_KEYWORDS, merchant)
     /\ ~(Len(merchant) < 2 \/ IsAllDigits(RemoveSpaces(merchant)))

_filter_transactions(txns) == SelectSeq(txns, KeepsTxn)

\* _get_top_spending: the 5 biggest transactions (the model's transactions
\* carry no original_merchant, so that the merchant is the one reported)
_get_top_spending(txns) ==
  LET sorted_txns == Take(SortDescBy(txns, "amount"), 5)
  IN [i \in 1..Len(sorted_txns) |->
        [date |-> sorted_txns[i].date,
         merchant |-> sorted_txns[i].merchant,
         amount |-> sorted_txns[i].amount,
         category |-> CategoryOrOther(sorted_txns[i])]]

\* _estimate_months
_estimate_months(txns) ==
  LET days == DaysCovered(txns)
  IN IF days > 0 THEN MaxOf({1, days \div 30}) ELSE 3

\* _heuristic_analysis, line 152: the key of merchant_data
HeuristicKeyRaw(t) == t.merchant

HeuristicKey(t) == MerchantOrNormalized(t)

\* lines 150-154: the keys of merchant_data in insertion order
MerchantKeys(txns) ==
  FirstOccurrences([i \in 1..Len(txns) |-> HeuristicKey(txns[i])])

MerchantTxns(txns, merchant) ==
  SelectSeq(txns, LAMBDA t : HeuristicKey(t) = merchant)

MerchantTotal(txns, merchant) ==
  SumSeq([i \in 1..Len(txns) |->
            IF HeuristicKey(txns[i]) = merchant THEN txns[i].amount ELSE 0])

\* The leak entry of the three scans: monthly_cost = total / max(1, months)
ScanLeak(category, txns, merchant, explanation) ==
  LET months == MaxOf({1, _estimate_months(MerchantTxns(txns, merchant))})
  IN [category |-> category,
      merchant |-> merchant,
      monthly_cost |-> RoundDiv(MerchantTotal(txns, merchant), months),
      yearly_cost |-> RoundDiv(MerchantTotal(txns, merchant) * 12, months),
      explanation |-> explanation]

\* lines 219-220 (and 240-241, 261-262): if merchant in exclude_merchants
Excluded(merchant, exclude_merchants) == merchant \in exclude_merchants

\* _detect_fees
_detect_fees(txns, exclude_merchants) ==
  LET hit == SelectSeq(MerchantKeys(txns),
                       LAMBDA m : /\ ~Excluded(m, exclude_merchants)
                                  /\ AnyKeyword(FEE_KEYWORDS, m))
  IN [k \in 1..Len(hit) |->
        ScanLeak("Fees & Charges", txns, hit[k],
                 <<"Bank/service fees", Len(MerchantTxns(txns, hit[k])),
                   MerchantTotal(txns, hit[k])>>)]

\* _detect_food_delivery
_detect_food_delivery(txns, exclude_merchants) ==
  LET hit == SelectSeq(MerchantKeys(txns),
                       LAMBDA m : /\ ~Excluded(m, exclude_merchants)
                                  /\ AnyKeyword(FOOD_DELIVERY_KEYWORDS, m))
  IN [k \in 1..Len(hit) |->
        ScanLeak("Food Delivery", txns, hit[k],
                 <<"Food delivery", Len(MerchantTxns(txns, hit[k])),
                   MerchantTotal(txns, hit[k])>>)]

\* line 268: avg_amount < 10 and len(txns) >= 10
MicroCount == 10

\* _detect_micro_leaks
_detect_micro_leaks(txns, exclude_merchants) ==
  LET hit == SelectSeq(MerchantKeys(txns),
                       LAMBDA m : /\ ~Excluded(m, exclude_merchants)
                                  /\ MerchantTotal(txns, m)
                                       < 1000 * Len(MerchantTxns(txns, m))
                                  /\ Len(MerchantTxns(txns, m)) >= MicroCount)
  IN [k \in 1..Len(hit) |->
        ScanLeak("Small Frequent Purchases", txns, hit[k],
                 <<"Convenience store purchases">>)]

\* lines 161-171: the subscriptions as leaks
SubscriptionLeaks(subs) ==
  LET counted == SelectSeq(subs, LAMBDA s : s.confidence >= 50)
  IN [i \in 1..Len(counted) |->
        [category |-> "Subscription",
         merchant |-> counted[i].merchant,
         monthly_cost |-> counted[i].monthly_cost,
         yearly_cost |-> counted[i].annual_cost,
         explanation |-> <<counted[i].reason>>]]

\* leak.get(field, default)
Get(rec, field, default) ==
  IF field \in DOMAIN rec THEN rec[field] ELSE default

\* _generate_easy_wins: the first leak of each category yields one entry
\* (the action text follows from the title and is not kept)
EasyWin(leak) ==
  IF leak.category = "Subscription" THEN
    IF Contains(leak.merchant, <<"G","Y","M">>)
         \/ Contains(leak.merchant, <<"F","I","T","N","E","S","S">>)
      THEN << [title |-> <<"Audit usage", leak.merchant>>,
               estimated_yearly_savings |-> leak.yearly_cost] >>
      ELSE << [title |-> <<"Consolidate streaming services">>,
               estimated_yearly_savings |-> leak.yearly_cost] >>
  ELSE IF leak.category = "Food Delivery" THEN
    << [title |-> <<"Reduce delivery orders">>,
        estimated_yearly_savings |-> RoundDiv(leak.yearly_cost * 5, 10)] >>
  ELSE IF leak.category = "Fees & Charges" THEN
    << [title |-> <<"Switch to fee-free banking">>,
        estimated_yearly_savings |-> leak.yearly_cost] >>
  ELSE IF leak.category = "Small Frequent Purchases" THEN
    << [title |-> <<"Cut convenience store runs">>,
        estimated_yearly_savings |-> RoundDiv(leak.yearly_cost * 3, 10)] >>
  ELSE <<>>

_generate_easy_wins(top_leaks) ==
  LET f[i \in 0..Len(top_leaks)] ==
        IF i = 0 THEN <<>>
        ELSE IF \E j \in 1..(i - 1) :
                  top_leaks[j].category = top_leaks[i].category
               THEN f[i - 1]
               ELSE f[i - 1] \o EasyWin(top_leaks[i])
  IN f[Len(top_leaks)]

\* _generate_recovery_plan; monthly_leak is in cents, the targets in dollars
_generate_recovery_plan(top_leaks, monthly_leak) ==
  LET sub_leaks == SelectSeq(top_leaks, LAMBDA l : l.category = "Subscription")
      food_leaks == SelectSeq(top_leaks, LAMBDA l : l.category = "Food Delivery")
      fee_leaks == SelectSeq(top_leaks, LAMBDA l : l.category = "Fees & Charges")
      food_yearly == SumSeq([i \in 1..Len(food_leaks) |-> food_leaks[i].yearly_cost])
  IN (IF sub_leaks # <<>>
        THEN << <<"Week 1: Audit all subscriptions", Len(sub_leaks)>> >>
        ELSE <<>>)
     \o (IF food_leaks # <<>>
           THEN << <<"Week 2: Set weekly food delivery budget",
                     RoundDiv(food_yearly, 10400)>> >>
           ELSE <<>>)
     \o (IF fee_leaks # <<>>
           THEN << <<"Week 3: Research and open a fee-free bank account">> >>
           ELSE <<>>)
     \o << <<"Month 2: Track all discretionary spending for 30 days">>,
           <<"Set up automatic transfers of saved money">>,
           <<"Schedule monthly 15-minute spending reviews">> >>
     \o (IF monthly_leak > 10000
           THEN << <<"Goal: Reduce monthly leaks", RoundDiv(monthly_leak, 100),
                     RoundDiv(monthly_leak, 200)>> >>
           ELSE <<>>)

\* _heuristic_analysis
\* The first 10 leaks in the order they were found
TopLeaksUnsorted(leaks) == Take(leaks, 10)

\* lines 191 and 206: top_leaks.sort(monthly_cost, reverse=True), then
\* top_leaks[:10]
TopLeaks(leaks) == Take(SortDescBy(leaks, "monthly_cost"), 10)

\* The totals taken over the leaks that are returned
TotalsOfTopLeaks(txns, subs) ==
  LET sub_leaks == SubscriptionLeaks(subs)
      subscription_merchants == {sub_leaks[i].merchant : i \in 1..Len(sub_leaks)}
      leaks == sub_leaks
                 \o _detect_fees(txns, subscription_merchants)
                 \o _detect_food_delivery(txns, subscription_merchants)
                 \o _detect_micro_leaks(txns, subscription_merchants)
      top_leaks == TopLeaks(leaks)
      total_leak == SumSeq([i \in 1..Len(top_leaks) |-> top_leaks[i].monthly_cost])
  IN [monthly_leak |-> total_leak,
      annual_savings |-> total_leak * 12,
      top_leaks |-> top_leaks,
      top_spending |-> _get_top_spending(txns),
      easy_wins |-> Take(_generate_easy_wins(top_leaks), 5),
      recovery_plan |-> _generate_recovery_plan(top_leaks, total_leak)]

_heuristic_analysis(txns, subs) ==
  LET sub_leaks == SubscriptionLeaks(subs)
      subscription_merchants == {sub_leaks[i].merchant : i \in 1..Len(sub_leaks)}
      leaks == sub_leaks
                 \o _detect_fees(txns, subscription_merchants)
                 \o _detect_food_delivery(txns, subscription_merchants)
                 \o _detect_micro_leaks(txns, subscription_merchants)
      total_leak == SumSeq([i \in 1..Len(leaks) |-> leaks[i].monthly_cost])
      top_leaks == SortDescBy(leaks, "monthly_cost")
  IN [monthly_leak |-> total_leak,
      annual_savings |-> total_leak * 12,
      top_leaks |-> TopLeaks(leaks),
      top_spending |-> _get_top_spending(txns),
      easy_wins |-> Take(_generate_easy_wins(top_leaks), 5),
      recovery_plan |-> _generate_recovery_plan(top_leaks, total_leak)]

----------------------------------------------------------------------------
(* analyzer: enrichment, merge and report *)

Disclaimer ==
  "This analysis is for informational purposes only. Not financial advice."

\* _empty_result
_empty_result ==
  [monthly_leak |-> 0,
   annual_savings |-> 0,
   top_leaks |-> <<>>,
   top_spending |-> <<>>,
   easy_wins |-> <<>>,
   recovery_plan |-> << <<"Upload your bank statement to get started">>,
                        <<"We'll analyze your spending patterns">>,
                        <<"Get personalized recommendations to save money">> >>,
   disclaimer |-> Disclaimer,
   category_summary |-> <<>>,
   subscriptions |-> <<>>,
   comparison |-> None,
   share_summary |-> None]

\* claude_client.get_claude_analysis: what the call comes to.  reply.kind is
\* "no_key" (line 22), "raises" (line 69: the client raises or times out),
\* "bad_json" (line 66) or "json" (line 65: the parsed object).
get_claude_analysis(reply) ==
  IF reply.kind = "json" THEN reply.value ELSE None

\* The parsed object is a record of its three lists; a key that is absent is
\* the empty list, as the code reads each one with `key in claude and
\* claude[key]`.  if claude_enhancements: an object without content is falsy.
Truthy(claude_enhancements) ==
  /\ claude_enhancements # None
  /\ \/ claude_enhancements.enhanced_leaks # <<>>
     \/ claude_enhancements.easy_wins # <<>>
     \/ claude_enhancements.recovery_plan # <<>>

\* _merge_results, lines 424-434: the costs of an appended leak
CostedLeak(leak) ==
  LET monthly_cost == Get(leak, "monthly_cost", 0)
      yearly_cost == Get(leak, "yearly_cost", monthly_cost * 12)
  IN [k \in DOMAIN leak \cup {"monthly_cost", "yearly_cost"} |->
        IF k = "monthly_cost" THEN monthly_cost
        ELSE IF k = "yearly_cost" THEN yearly_cost
        ELSE leak[k]]

\* _merge_results, lines 420-422: the enhanced leaks that are appended;
\* existing_merchants is computed once, before the loop
AppendedLeaks(top_leaks, enhanced_leaks) ==
  LET existing_merchants == {top_leaks[i].merchant : i \in 1..Len(top_leaks)}
  IN SelectSeq(enhanced_leaks, LAMBDA leak : leak.merchant \notin existing_merchants)

\* A merge that sorts the merged leaks by monthly cost and cuts them to 10
MergeSortedAndCut(h, c) ==
  LET appended == AppendedLeaks(h.top_leaks, c.enhanced_leaks)
      costed == [i \in 1..Len(appended) |-> CostedLeak(appended[i])]
      monthly_leak == h.monthly_leak
                        + SumSeq([i \in 1..Len(costed) |-> costed[i].monthly_cost])
  IN [h EXCEPT
        !.top_leaks = TopLeaks(@ \o costed),
        !.monthly_leak = monthly_leak,
        !.easy_wins = IF c.easy_wins # <<>> THEN Take(c.easy_wins, 5) ELSE @,
        !.recovery_plan = IF c.recovery_plan # <<>> THEN c.recovery_plan ELSE @,
        !.annual_savings = monthly_leak * 12]

\* _merge_results
_merge_results(h, c) ==
  LET appended == AppendedLeaks(h.top_leaks, c.enhanced_leaks)
      costed == [i \in 1..Len(appended) |-> CostedLeak(appended[i])]
      monthly_leak == h.monthly_leak
                        + SumSeq([i \in 1..Len(costed) |-> costed[i].monthly_cost])
  IN [h EXCEPT
        !.top_leaks = @ \o costed,
        !.monthly_leak = monthly_leak,
        !.easy_wins = IF c.easy_wins # <<>> THEN Take(c.easy_wins, 5) ELSE @,
        !.recovery_plan = IF c.recovery_plan # <<>> THEN c.recovery_plan ELSE @,
        !.annual_savings = monthly_leak * 12]

\* The analysis is aborted by an exception (the endpoint answers 500)
Aborted == [error |-> "Analysis failed"]

\* analyze_transactions, lines 108-111, without the test of line 110:
\* _merge_results raises on None
EnhanceUnguarded(heuristic_results, claude_enhancements) ==
  IF claude_enhancements = None THEN Aborted
  ELSE _merge_results(heuristic_results, claude_enhancements)

\* analyze_transactions, lines 108-111
Enhance(heuristic_results, claude_enhancements) ==
  IF Truthy(claude_enhancements)
    THEN _merge_results(heuristic_results, claude_enhancements)
    ELSE heuristic_results

\* _generate_share_summary, lines 384-400: at most 3 categories of the
\* first 5 leaks
TopCategories(top_leaks) ==
  LET leaks == Take(top_leaks, 5)
      f[i \in 0..Len(leaks)] ==
        IF i = 0 THEN <<>>
        ELSE IF \/ Len(f[i - 1]) >= 3
                \/ \E j \in 1..(i - 1) :
                     Get(leaks[j], "category", "Other")
                       = Get(leaks[i], "category", "Other")
               THEN f[i - 1]
               ELSE Append(f[i - 1],
                           [category |-> Get(leaks[i], "category", "Other"),
                            monthly |-> Get(leaks[i], "monthly_cost", 0)])
  IN f[Len(leaks)]

\* _generate_share_summary (the tagline repeats annual_savings)
_generate_share_summary(results, subs) ==
  [monthly_leak |-> results.monthly_leak,
   annual_savings |-> results.annual_savings,
   top_categories |-> TopCategories(results.top_leaks),
   subscription_count |-> Len(SelectSeq(subs, LAMBDA s : s.confidence >= 60))]

\* analyze_transactions, lines 113-122: the report built from the (merged)
\* heuristic results
Report(results, category_summary, subs, cmp) ==
  IF results = Aborted THEN Aborted
  ELSE [monthly_leak |-> results.monthly_leak,
        annual_savings |-> results.annual_savings,
        top_leaks |-> results.top_leaks,
        top_spending |-> results.top_spending,
        easy_wins |-> results.easy_wins,
        recovery_plan |-> results.recovery_plan,
        disclaimer |-> Disclaimer,
        category_summary |-> category_summary,
        subscriptions |-> subs,
        comparison |-> cmp,
        share_summary |-> _generate_share_summary(results, subs)]

\* analyze_transactions, lines 83-90: the two returns of _empty_result
StartsEmptyUnfiltered(txns) == txns = <<>>

StartsEmpty(txns) == txns = <<>> \/ _filter_transactions(txns) = <<>>

----------------------------------------------------------------------------
(* claude_client._prepare_anonymized_summary, _get_amount_range *)

\* The amount itself in place of its range
ExactAmount(amount, per) == <<amount, per>>

\* _get_amount_range(amount / per): amount in cents, per >= 1
_get_amount_range(amount, per) ==
  IF amount < 1000 * per THEN "$0-10"
  ELSE IF amount < 2500 * per THEN "$10-25"
  ELSE IF amount < 5000 * per THEN "$25-50"
  ELSE IF amount < 10000 * per THEN "$50-100"
  ELSE IF amount < 25000 * per THEN "$100-250"
  ELSE IF amount < 50000 * per THEN "$250-500"
  ELSE IF amount < 100000 * per THEN "$500-1000"
  ELSE IF amount < 250000 * per THEN "$1000-2500"
  ELSE IF amount < 500000 * per THEN "$2500-5000"
  ELSE IF amount < 1000000 * per THEN "$5000-10000"
  ELSE "$10000+"

\* t.get("category", "Uncategorized")
CategoryOrUncategorized(txn) ==
  IF txn.category = NoCategory THEN "Uncategorized" ELSE txn.category

\* lines 86-100: category_totals, sorted by total, largest first
SortedCategories(txns) ==
  LET cats == FirstOccurrences(
                [i \in 1..Len(txns) |-> CategoryOrUncategorized(txns[i])])
      totals == [k \in 1..Len(cats) |->
                   [category |-> cats[k],
                    count |-> Len(SelectSeq(txns,
                                LAMBDA t : CategoryOrUncategorized(t) = cats[k])),
                    total |-> SumSeq([i \in 1..Len(txns) |->
                                IF CategoryOrUncategorized(txns[i]) = cats[k]
                                  THEN txns[i].amount ELSE 0])]]
  IN SortDescBy(totals, "total")

\* _prepare_anonymized_summary: the lines of the summary
_prepare_anonymized_summary(txns, heuristic_results) ==
  LET sorted_categories == SortedCategories(txns)
  IN << <<"Spending by Category (anonymized):">> >>
     \o [k \in 1..Len(sorted_categories) |->
           <<"-", sorted_categories[k].category,
             _get_amount_range(sorted_categories[k].total, 1), "total",
             sorted_categories[k].count, "transactions",
             _get_amount_range(sorted_categories[k].total,
                               sorted_categories[k].count), "avg">>]
     \o << <<"Total transactions:", Len(txns)>>,
           <<"Total spending range:",
             _get_amount_range(SumSeq([i \in 1..Len(txns) |-> txns[i].amount]), 1)>> >>
     \o (IF "subscriptions" \in DOMAIN heuristic_results
           THEN << <<"Detected recurring payments:",
                     Len(heuristic_results.subscriptions)>> >>
           ELSE <<>>)

----------------------------------------------------------------------------
(* Inputs of the detector specification *)

MaxGroup == 4

DetectMerchants ==
  << <<"N","e","t","f","l","i","x">>,
     <<"B","P","A","Y"," ","W","A","T","E","R">>,
     <<"A","C","M","E"," ","C","O">> >>

\* "2025-03-02", "2025-01-01", "n/a", "01/04/2025", "", "01/31/2025"
DetectDates ==
  << Ymd(2025, 3, 2), Ymd(2025, 1, 1), JunkDate,
     Slash(1, 4, 2025), EmptyDate, Slash(1, 31, 2025) >>

DetectAmounts == <<1200, 9000, 9400, 10400>>

PosIn(s, x) == CHOOSE i \in 1..Len(s) : s[i] = x

\* Rows are fed in the order of DetectDates (not the order of the dates),
\* one row per date text at most
DetectRank(t) == PosIn(DetectDates, t.date)

Idle ==
  /\ files = <<>>
  /\ transactions = <<>>
  /\ subscriptions = <<>>
  /\ comparison = None
  /\ heuristic = None
  /\ claude = None
  /\ result = None
  /\ calls = {}
  /\ categorized = <<>>
  /\ other = <<>>
  /\ prompts = <<>>

DetectInit == pc = "detect_input" /\ Idle

\* The caller appends one more transaction of the merchant under study
DetectAddTxn ==
  /\ pc = "detect_input"
  /\ Len(transactions) < MaxGroup
  /\ \E m \in Range(DetectMerchants), d \in Range(DetectDates),
        a \in Range(DetectAmounts) :
       LET t == RawTxn(d, m, a)
       IN /\ transactions # <<>> =>
               /\ m = transactions[1].merchant
               /\ DetectRank(t) > DetectRank(transactions[Len(transactions)])
          /\ transactions' = Append(transactions, t)
  /\ UNCHANGED <<pc, files, subscriptions, comparison, heuristic, claude,
                 result, calls, categorized, other, prompts>>

DetectRun ==
  /\ pc = "detect_input"
  /\ subscriptions' = detect_subscriptions(transactions)
  /\ pc' = "detected"
  /\ UNCHANGED <<files, transactions, comparison, heuristic, claude, result,
                 calls, categorized, other, prompts>>

DetectNext == DetectAddTxn \/ DetectRun

SpecDetect == DetectInit /\ [][DetectNext]_vars

----------------------------------------------------------------------------
(* Claims about detect_subscriptions *)

GroupKeys == Range(SubscriptionGroups(transactions))

IsKnown(k) == AnyKeyword(KNOWN_SUBSCRIPTIONS, k)

IsRecurring(k) == AnyKeyword(RECURRING_PATTERNS, k)

AmountsOf(k) ==
  LET g == GroupTxns(transactions, k)
  IN [i \in 1..Len(g) |-> g[i].amount]

DatesOf(k) == ParsedDates(GroupTxns(transactions, k))

Reported(k) == \E i \in 1..Len(subscriptions) : subscriptions[i].merchant = k

EntryOf(k) ==
  subscriptions[CHOOSE i \in 1..Len(subscriptions) :
                  subscriptions[i].merchant = k]

ReportedConfidence(k) == IF Reported(k) THEN EntryOf(k).confidence ELSE 0

EqualCharges30DaysApart(k, n) ==
  LET amounts == AmountsOf(k)
      dates == DatesOf(k)
      intervals == Intervals(dates)
  IN /\ Len(amounts) = n
     /\ Len(dates) = n
     /\ \A i \in 1..n : amounts[i] = amounts[1]
     /\ \A i \in 1..(n - 1) : intervals[i] = 30

\* C1: a group without a known-subscription keyword gets the confidence of
\* the first rule that holds, in the order 0.9 (recurring keyword, >= 3
\* charges, periodic), 0.85 (>= 3, consistent, periodic), 0.75 (recurring
\* keyword, >= 3, loosely consistent), 0.7 (>= 2, consistent), else it is not
\* reported; 4 equal charges 30 days apart of a merchant with no keyword give
\* 0.85, and exactly 2 consistent charges give 0.7.
C1_Ladder ==
  pc = "detected" =>
    \A k \in GroupKeys :
      ~IsKnown(k) =>
        LET amounts == AmountsOf(k)
            n == Len(amounts)
            rec == IsRecurring(k)
            per == IsPeriodic(DatesOf(k))
            con == IsConsistent(amounts)
            loose == IsLooselyConsistent(amounts)
            conf == ReportedConfidence(k)
        IN /\ conf = IF rec /\ n >= 3 /\ per THEN 90
                     ELSE IF n >= 3 /\ con /\ per THEN 85
                     ELSE IF rec /\ n >= 3 /\ loose THEN 75
                     ELSE IF n >= 2 /\ con THEN 70
                     ELSE 0
           /\ (~rec /\ EqualCharges30DaysApart(k, 4)) => conf = 85
           /\ (n = 2 /\ con) => conf = 70

C1_Witness ==
  /\ pc = "detected"
  /\ \E k \in GroupKeys :
       /\ ~IsKnown(k) /\ ~IsRecurring(k)
       /\ EqualCharges30DaysApart(k, 4)
       /\ ReportedConfidence(k) = 85

\* C2: a group whose upper-cased merchant holds a known-subscription keyword
\* is reported with confidence 0.95 and reason "Known subscription service",
\* whatever its number of charges, amounts and dates.
C2_KnownKeyword ==
  pc = "detected" =>
    \A k \in GroupKeys :
      IsKnown(k) =>
        /\ Reported(k)
        /\ EntryOf(k).confidence = 95
        /\ EntryOf(k).reason = "Known subscription service"

C2_Witness ==
  /\ pc = "detected"
  /\ \E k \in GroupKeys :
       /\ IsKnown(k)
       /\ Len(AmountsOf(k)) = 1
       /\ DatesOf(k) = <<>>
       /\ ReportedConfidence(k) = 95

----------------------------------------------------------------------------
(* Inputs of the month-comparison specification *)

MaxCompare == 3

\* "2025-01-01", and the days 14, 59, 60 and 61 days later; "n/a"
CompareDates ==
  << Ymd(2025, 3, 2), Ymd(2025, 1, 1), Slash(3, 3, 2025), JunkDate,
     Ymd(2025, 1, 15), Slash(1, 3, 2025) >>

CompareCategories == <<"Dining & Delivery", "Income">>

CompareAmounts == <<1000, 5000>>

CompareRank(t) ==
  ((PosIn(CompareDates, t.date) - 1) * Len(CompareCategories)
     + PosIn(CompareCategories, t.category) - 1) * Len(CompareAmounts)
    + PosIn(CompareAmounts, t.amount)

CompareInit == pc = "compare_input" /\ Idle

\* The caller appends one more categorized transaction
CompareAddTxn ==
  /\ pc = "compare_input"
  /\ Len(transactions) < MaxCompare
  /\ \E d \in Range(CompareDates), c \in Range(CompareCategories),
        a \in Range(CompareAmounts) :
       LET t == [RawTxn(d, <<"S","H","O","P">>, a) EXCEPT
                   !.category = c, !.normalized_merchant = <<"S","H","O","P">>]
       IN /\ transactions # <<>> =>
               CompareRank(t) >= CompareRank(transactions[Len(transactions)])
          /\ transactions' = Append(transactions, t)
  /\ UNCHANGED <<pc, files, subscriptions, comparison, heuristic, claude,
                 result, calls, categorized, other, prompts>>

CompareRun ==
  /\ pc = "compare_input"
  /\ comparison' = generate_month_comparison(transactions)
  /\ pc' = "compared"
  /\ UNCHANGED <<files, transactions, subscriptions, heuristic, claude,
                 result, calls, categorized, other, prompts>>

CompareNext == CompareAddTxn \/ CompareRun

SpecCompare == CompareInit /\ [][CompareNext]_vars

----------------------------------------------------------------------------
(* Claims about generate_month_comparison *)

SpendingMonths ==
  {MonthKey(t) : t \in Range(MonthlyTxns(transactions))}

\* C3: generate_month_comparison returns a comparison only when the span
\* between the earliest and the latest parseable date exceeds 60 days and at
\* least 2 distinct calendar months hold transactions, and null otherwise.
C3_MoreThan60Days ==
  pc = "compared" =>
    (comparison # None <=>
       (DaysCovered(transactions) > 60 /\ Cardinality(SpendingMonths) >= 2))

\* The span of 60 days at which the code and the claim part
C3_SixtyDays ==
  /\ pc = "compared"
  /\ DaysCovered(transactions) = 60
  /\ comparison # None

----------------------------------------------------------------------------
(* Inputs of the analysis specification *)

MaxTxns == 3

\* The statement rows a caller can pass: "Visa Gym Fee" (a known
\* subscription whose name holds a fee keyword), "DOORDASH FEE" (food
\* delivery and fee keywords), "BALANCE" (a summary line), "Kiosk", and a
\* refund
AnalyzeRows ==
  << RawTxn(Ymd(2025, 1, 1), <<"V","i","s","a"," ","G","y","m"," ","F","e","e">>, 900),
     RawTxn(Ymd(2025, 3, 2), <<"V","i","s","a"," ","G","y","m"," ","F","e","e">>, 900),
     RawTxn(Ymd(2025, 1, 1), <<"D","O","O","R","D","A","S","H"," ","F","E","E">>, 300),
     RawTxn(Ymd(2025, 3, 2), <<"D","O","O","R","D","A","S","H"," ","F","E","E">>, 900),
     RawTxn(Ymd(2025, 1, 1), <<"B","A","L","A","N","C","E">>, 900),
     RawTxn(Ymd(2025, 3, 2), <<"K","i","o","s","k">>, 900),
     RawTxn(Ymd(2025, 1, 1), <<"D","O","O","R","D","A","S","H"," ","F","E","E">>, 0 - 500) >>

\* Ten purchases of 3.00 at the kiosk on one day
KioskRun == [i \in 1..MicroCount |-> RawTxn(Ymd(2025, 1, 1), <<"K","i","o","s","k">>, 300)]

\* Enhanced leaks an enrichment object can carry: one of a merchant the
\* heuristic analysis may have reported, two of a merchant it has not
LeakKnown ==
  [category |-> "Food Delivery",
   merchant |-> <<"D","O","O","R","D","A","S","H"," ","F","E","E">>,
   monthly_cost |-> 5000, yearly_cost |-> 60000]

LeakNew ==
  [category |-> "Insurance",
   merchant |-> <<"A","A","M","I">>,
   monthly_cost |-> 4000]

LeakNewAgain ==
  [merchant |-> <<"A","A","M","I">>,
   monthly_cost |-> 4500, yearly_cost |-> 50000]

ClaudeWins ==
  << [title |-> <<"Review insurance">>, estimated_yearly_savings |-> 12000] >>

ClaudePlan == << <<"Compare insurance quotes">> >>

Enrichment(leaks, wins, plan) ==
  [enhanced_leaks |-> leaks, easy_wins |-> wins, recovery_plan |-> plan]

\* What the call of the LLM collaborator can come to
ClaudeReplies ==
  { [kind |-> "no_key"], [kind |-> "raises"], [kind |-> "bad_json"],
    [kind |-> "json", value |-> Enrichment(<<>>, <<>>, <<>>)],
    [kind |-> "json", value |-> Enrichment(<<>>, ClaudeWins, ClaudePlan)],
    [kind |-> "json", value |-> Enrichment(<<LeakNew>>, <<>>, <<>>)],
    [kind |-> "json", value |-> Enrichment(<<LeakKnown, LeakNew>>, ClaudeWins, <<>>)],
    [kind |-> "json", value |-> Enrichment(<<LeakNew, LeakNewAgain>>, <<>>, <<>>)] }

----------------------------------------------------------------------------
(* analyzer.analyze_transactions *)

\* The position of a row in AnalyzeRows, 0 for a purchase of the kiosk run
AnalyzeRank(t) ==
  IF t \in Range(KioskRun) THEN 0 ELSE PosIn(AnalyzeRows, t)

Init == pc = "input" /\ Idle

\* The caller appends one more row (rows are fed in the order of AnalyzeRows)
AddTxn ==
  /\ pc = "input"
  /\ Len(SelectSeq(transactions, LAMBDA t : AnalyzeRank(t) > 0)) < MaxTxns
  /\ \E r \in 1..Len(AnalyzeRows) :
       /\ transactions # <<>> =>
            AnalyzeRank(transactions[Len(transactions)]) <= r
       /\ transactions' = Append(transactions, AnalyzeRows[r])
  /\ UNCHANGED <<pc, files, subscriptions, comparison, heuristic, claude,
                 result, calls, categorized, other, prompts>>

\* The statement starts with the kiosk purchases
AddKioskRun ==
  /\ pc = "input"
  /\ transactions = <<>>
  /\ transactions' = KioskRun
  /\ UNCHANGED <<pc, files, subscriptions, comparison, heuristic, claude,
                 result, calls, categorized, other, prompts>>

\* analyze_transactions, lines 83-105: up to the call of get_claude_analysis
\* (line 109), or to the end when use_claude is false
Analyze ==
  /\ pc = "input"
  /\ IF StartsEmpty(transactions)
       THEN /\ result' = _empty_result
            /\ pc' = "done"
            /\ UNCHANGED <<subscriptions, comparison, heuristic, calls,
                           categorized>>
       ELSE /\ categorized' =
                 categorize_transactions(_filter_transactions(transactions))
            /\ subscriptions' = detect_subscriptions(categorized')
            /\ comparison' = generate_month_comparison(categorized')
            /\ heuristic' = _heuristic_analysis(categorized', subscriptions')
            /\ \E use_claude \in BOOLEAN :
                 IF use_claude
                   THEN /\ calls' = {"categorize_transactions",
                                     "generate_category_summary",
                                     "detect_subscriptions",
                                     "generate_month_comparison",
                                     "_heuristic_analysis",
                                     "get_claude_analysis"}
                        /\ pc' = "enrich"
                        /\ UNCHANGED result
                   ELSE /\ calls' = {"categorize_transactions",
                                     "generate_category_summary",
                                     "detect_subscriptions",
                                     "generate_month_comparison",
                                     "_heuristic_analysis"}
                        /\ pc' = "done"
                        /\ result' = Report(heuristic',
                                            generate_category_summary(categorized'),
                                            subscriptions', comparison')
  /\ UNCHANGED <<files, transactions, claude, other, prompts>>

\* analyze_transactions, lines 109-122: get_claude_analysis returns and the
\* report is built
ClaudeReturns ==
  /\ pc = "enrich"
  /\ \E reply \in ClaudeReplies :
       /\ claude' = get_claude_analysis(reply)
       /\ result' = Report(Enhance(heuristic, get_claude_analysis(reply)),
                           generate_category_summary(categorized),
                           subscriptions, comparison)
  /\ pc' = "done"
  /\ UNCHANGED <<files, transactions, subscriptions, comparison, heuristic,
                 calls, categorized, other, prompts>>

Next == AddTxn \/ AddKioskRun \/ Analyze \/ ClaudeReturns

Spec == Init /\ [][Next]_vars

----------------------------------------------------------------------------
(* Claims about analyze_transactions *)

Analyzed == pc \in {"enrich", "done"} /\ heuristic # None

Leaks == heuristic.top_leaks

\* C4: no fee, food-delivery or micro-purchase leak is produced for a
\* merchant that is reported as a Subscription leak: detect_subscriptions
\* and the leak scans group every transaction under the same merchant key.
C4_SubscriptionKeys ==
  Analyzed =>
    /\ \A i \in 1..Len(categorized) :
         SubscriptionKey(categorized[i]) = HeuristicKey(categorized[i])
    /\ \A i \in 1..Len(categorized) : \A j, k \in 1..Len(Leaks) :
         (/\ Leaks[j].category = "Subscription"
          /\ Leaks[j].merchant = SubscriptionKey(categorized[i])
          /\ Leaks[k].category # "Subscription")
           => Leaks[k].merchant # HeuristicKey(categorized[i])

\* A subscription merchant that the fee scan would report, and one that
\* the micro-purchase scan would report
C4_Witness ==
  /\ Analyzed
  /\ \E j \in 1..Len(Leaks) :
       /\ Leaks[j].category = "Subscription"
       /\ AnyKeyword(FEE_KEYWORDS, Leaks[j].merchant)
       /\ \E i \in 1..Len(categorized) :
            /\ categorized[i].merchant # categorized[i].normalized_merchant
            /\ HeuristicKey(categorized[i]) = Leaks[j].merchant

\* C5: in the leak list of the heuristic analysis every merchant appears in
\* at most one leak entry, so that its spending is added to monthly_leak at
\* most once.
C5_NoDoubleCount ==
  Analyzed =>
    \A j, k \in 1..Len(Leaks) :
      j # k => Leaks[j].merchant # Leaks[k].merchant

\* One merchant reported by the fee scan and by the food-delivery scan
C5_FeeAndFood ==
  /\ Analyzed
  /\ \E j, k \in 1..Len(Leaks) :
       /\ Leaks[j].category = "Fees & Charges"
       /\ Leaks[k].category = "Food Delivery"
       /\ Leaks[j].merchant = Leaks[k].merchant
       /\ heuristic.monthly_leak >= Leaks[j].monthly_cost + Leaks[k].monthly_cost

AllFiltered ==
  \A i \in 1..Len(transactions) :
    \/ transactions[i].amount <= 0
    \/ AnyKeyword(EXCLUDE_KEYWORDS, Upper(transactions[i].merchant))
    \/ Len(transactions[i].merchant) < 2
    \/ IsAllDigits(RemoveSpaces(transactions[i].merchant))

\* C6: when the input list is empty or every transaction is removed by the
\* filter, analyze_transactions returns the fixed empty report (zero
\* monthly_leak and annual_savings, empty lists, the three-line onboarding
\* recovery_plan, comparison and share_summary null) and has called no
\* categorization, detection or enrichment.
C6_EmptyReport ==
  (pc = "done" /\ AllFiltered) =>
    /\ result.monthly_leak = 0
    /\ result.annual_savings = 0
    /\ result.top_leaks = <<>>
    /\ result.top_spending = <<>>
    /\ result.easy_wins = <<>>
    /\ result.category_summary = <<>>
    /\ result.subscriptions = <<>>
    /\ result.recovery_plan =
         << <<"Upload your bank statement to get started">>,
            <<"We'll analyze your spending patterns">>,
            <<"Get personalized recommendations to save money">> >>
    /\ result.comparison = None
    /\ result.share_summary = None
    /\ calls = {}
    /\ categorized = <<>>

\* Two rows, one removed for its amount and one for its merchant
C6_Witness ==
  /\ pc = "done"
  /\ AllFiltered
  /\ \E i \in 1..Len(transactions) : transactions[i].amount <= 0
  /\ \E i \in 1..Len(transactions) : transactions[i].amount > 0
  /\ result.monthly_leak = 0
  /\ calls = {}

\* C7: when get_claude_analysis returns null, analyze_transactions still
\* completes and monthly_leak, annual_savings, top_leaks, easy_wins and
\* recovery_plan of the report are those of the heuristic analysis.
C7_HeuristicStands ==
  (pc = "done" /\ "get_claude_analysis" \in calls /\ claude = None) =>
    /\ result # Aborted
    /\ result.monthly_leak = heuristic.monthly_leak
    /\ result.annual_savings = heuristic.annual_savings
    /\ result.top_leaks = heuristic.top_leaks
    /\ result.easy_wins = heuristic.easy_wins
    /\ result.recovery_plan = heuristic.recovery_plan

C7_Witness ==
  /\ pc = "done"
  /\ "get_claude_analysis" \in calls
  /\ claude = None
  /\ result # Aborted
  /\ Len(result.top_leaks) >= 2
  /\ result.easy_wins # <<>>

Merged == pc = "done" /\ claude # None /\ result # Aborted

\* The monthly costs of the leaks of the report that follow the heuristic ones
AppendedCost ==
  SumSeq([i \in 1..(Len(result.top_leaks) - Len(Leaks)) |->
            result.top_leaks[Len(Leaks) + i].monthly_cost])

\* C8: when an enrichment object is merged, an enhanced leak is appended to
\* top_leaks only if no leak already in the list at that moment (heuristic,
\* or appended earlier in the same merge) has its merchant; monthly_leak
\* grows by the monthly costs of the appended leaks and annual_savings is
\* monthly_leak times 12.
C8_MergeAppends ==
  Merged =>
    /\ Len(result.top_leaks) >= Len(Leaks)
    /\ \A i \in 1..Len(Leaks) : result.top_leaks[i] = Leaks[i]
    /\ \A i \in (Len(Leaks) + 1)..Len(result.top_leaks) :
         \A j \in 1..(i - 1) :
           result.top_leaks[j].merchant # result.top_leaks[i].merchant
    /\ result.monthly_leak = heuristic.monthly_leak + AppendedCost
    /\ result.annual_savings = result.monthly_leak * 12

\* Two enhanced leaks of one merchant, both appended
C8_AppendedTwice ==
  /\ Merged
  /\ \E i, j \in (Len(Leaks) + 1)..Len(result.top_leaks) :
       /\ i < j
       /\ result.top_leaks[i].merchant = result.top_leaks[j].merchant

----------------------------------------------------------------------------
(* Two transaction lists and their prompts *)

MaxPrompt == 2

PromptCategories == <<"Dining & Delivery", "Groceries">>

PromptAmounts == <<3000, 4000, 4500>>

\* The first list names one merchant, the second another
PromptTxn(merchant, category, amount) ==
  [RawTxn(Ymd(2025, 1, 1), merchant, amount) EXCEPT
     !.category = category, !.normalized_merchant = merchant]

PromptInit == pc = "prompt_input" /\ Idle

PromptAddTxn ==
  /\ pc = "prompt_input"
  /\ Len(transactions) < MaxPrompt
  /\ \E c \in Range(PromptCategories), a \in Range(PromptAmounts) :
       transactions' = Append(transactions,
                              PromptTxn(<<"C","A","F","E"," ","X">>, c, a))
  /\ UNCHANGED <<pc, files, subscriptions, comparison, heuristic, claude,
                 result, calls, categorized, other, prompts>>

PromptAddOther ==
  /\ pc = "prompt_input"
  /\ Len(other) < MaxPrompt
  /\ \E c \in Range(PromptCategories), a \in Range(PromptAmounts) :
       other' = Append(other, PromptTxn(<<"S","H","O","P"," ","Y">>, c, a))
  /\ UNCHANGED <<pc, files, transactions, subscriptions, comparison,
                 heuristic, claude, result, calls, categorized, prompts>>

\* get_claude_analysis, line 29, for each of the two lists; the heuristic
\* results that analyze_transactions passes hold no "subscriptions"
PromptRun ==
  /\ pc = "prompt_input"
  /\ prompts' = << _prepare_anonymized_summary(transactions, _heuristic_analysis(<<>>, <<>>)),
                   _prepare_anonymized_summary(other, _heuristic_analysis(<<>>, <<>>)) >>
  /\ pc' = "prompted"
  /\ UNCHANGED <<files, transactions, subscriptions, comparison, heuristic,
                 claude, result, calls, categorized, other>>

PromptNext == PromptAddTxn \/ PromptAddOther \/ PromptRun

SpecPrompt == PromptInit /\ [][PromptNext]_vars

----------------------------------------------------------------------------
(* Claims about the prompt *)

\* The lower bounds of the amount ranges above "$0-10", in dollars
RangeBounds == <<10, 25, 50, 100, 250, 500, 1000, 2500, 5000, 10000>>

\* The range of amount / per, as the number of bounds it reaches
RangeOf(amount, per) ==
  Cardinality({k \in 1..Len(RangeBounds) : amount >= RangeBounds[k] * 100 * per})

CategoriesOf(txns) == {txns[i].category : i \in 1..Len(txns)}

CountOf(txns, c) == Len(SelectSeq(txns, LAMBDA t : t.category = c))

TotalOf(txns, c) ==
  SumSeq([i \in 1..Len(txns) |-> IF txns[i].category = c THEN txns[i].amount ELSE 0])

\* What the claim lets the prompt depend on: the category names, the counts
\* and the ranges of the category totals, category averages and overall total
Aggregate(txns) ==
  [categories |-> CategoriesOf(txns),
   counts |-> [c \in CategoriesOf(txns) |-> CountOf(txns, c)],
   totals |-> [c \in CategoriesOf(txns) |-> RangeOf(TotalOf(txns, c), 1)],
   averages |-> [c \in CategoriesOf(txns) |->
                   RangeOf(TotalOf(txns, c), CountOf(txns, c))],
   count |-> Len(txns),
   total |-> RangeOf(SumSeq([i \in 1..Len(txns) |-> txns[i].amount]), 1)]

\* The categories in the order of their lines: by total, largest first
CategoryRanking(txns) ==
  [k \in 1..Len(SortedCategories(txns)) |-> SortedCategories(txns)[k].category]

----------------------------------------------------------------------------
(* The upload handler: main.py, analyze *)

\* parse_csv, lines 286-291: the record of one statement row.  The merchant
\* is the normalised description, the amount is positive.
ParsedTxn(date, description, amount) ==
  [date |-> date,
   merchant |-> parser_normalize_merchant(description),
   original_merchant |-> Strip(description),
   amount |-> IF amount < 0 THEN 0 - amount ELSE amount,
   normalized_merchant |-> <<>>, category |-> NoCategory]

\* An uploaded file: its name, whether process_single_file can read it, and
\* the rows parse_csv finds in it
UploadFile(filename, readable, rows) ==
  [filename |-> filename, readable |-> readable, rows |-> rows]

HttpError(status, detail) == [status |-> status, detail |-> detail]

IsHttpError(r) == "status" \in DOMAIN r

MAX_FILES == 12

\* if files and len(files) > 0 and files[0].filename
FilesGiven(fs) == fs # <<>> /\ fs[1].filename # <<>>

\* The loop over the files: all_transactions.extend(transactions), in the
\* order of the files
RECURSIVE ConcatFiles(_)
ConcatFiles(fs) ==
  IF fs = <<>> THEN <<>>
  ELSE Head(fs).rows \o ConcatFiles(Tail(fs))

\* The key on which two transactions are the same transaction
TxnKey(t) == <<t.date, t.merchant, t.amount>>

\* merge_transactions: the transactions equal on (date, normalised merchant,
\* amount) collapse into the first of them; the others keep their order
RECURSIVE merge_transactions(_)
merge_transactions(txns) ==
  IF txns = <<>> THEN <<>>
  ELSE LET rest == merge_transactions(SubSeq(txns, 1, Len(txns) - 1))
           last == txns[Len(txns)]
       IN IF \E i \in 1..Len(rest) : TxnKey(rest[i]) = TxnKey(last)
            THEN rest ELSE Append(rest, last)

\* A guard that leaves two files unmerged
MoreThanTwoFiles(fs) == fs # <<>> /\ Len(fs) > 2

\* if files and len(files) > 1
SeveralFiles(fs) == fs # <<>> /\ Len(fs) > 1

\* all_transactions as the branches of the handler collect it, or the error
\* the handler raises there.  The limits on the sizes are not modelled.
Collected(fs, file, text) ==
  IF FilesGiven(fs)
    THEN IF Len(fs) > MAX_FILES THEN HttpError(400, "too many files")
         ELSE IF \E i \in 1..Len(fs) : ~fs[i].readable
           THEN HttpError(400, "file not processed")
         ELSE [all_transactions |-> ConcatFiles(fs)]
  ELSE IF file # None /\ file.filename # <<>>
    THEN IF ~file.readable THEN HttpError(400, "file not processed")
         ELSE [all_transactions |-> file.rows]
  ELSE IF text # None
    THEN IF ~text.readable THEN HttpError(400, "text not parsed")
         ELSE [all_transactions |-> text.rows]
  ELSE HttpError(400, "no data")

\* The list the handler passes to analyze_transactions, or the error it
\* raises before
Handed(fs, file, text) ==
  LET got == Collected(fs, file, text)
  IN IF IsHttpError(got) THEN got
     ELSE LET all_transactions ==
                IF SeveralFiles(fs) THEN merge_transactions(got.all_transactions)
                ELSE got.all_transactions
          IN IF all_transactions = <<>>
               THEN HttpError(400, "no valid transactions")
               ELSE [all_transactions |-> all_transactions]

----------------------------------------------------------------------------
(* Uploads *)

MaxFiles == 2

MaxRows == 3

\* Statement rows: a coffee bought through a payment processor, the same
\* purchase as another export words it, and purchases that differ from it in
\* the date or in the amount only
UploadRows ==
  << ParsedTxn(Ymd(2025, 1, 1), <<"S","Q"," ","*","C","o","f","f","e","e">>, 500),
     ParsedTxn(Ymd(2025, 1, 1), <<"c","o","f","f","e","e"," ">>, 0 - 500),
     ParsedTxn(Ymd(2025, 1, 9), <<"c","o","f","f","e","e"," ">>, 500),
     ParsedTxn(Ymd(2025, 1, 1), <<"c","o","f","f","e","e"," ">>, 700) >>

FileName == <<"s",".","c","s","v">>

\* The file field and the text field of a request
FileField == {None, UploadFile(FileName, TRUE, <<UploadRows[1], UploadRows[2]>>)}

TextField == {None, UploadFile(<<>>, TRUE, <<UploadRows[4], UploadRows[4]>>)}

TotalRows(fs) == Len(ConcatFiles(fs))

UploadInit == pc = "upload_input" /\ Idle

\* One more file in the files field; a browser may send a first part
\* without a name
UploadAddFile ==
  /\ pc = "upload_input"
  /\ Len(files) < MaxFiles
  /\ \E named, readable \in BOOLEAN :
       /\ files # <<>> => named
       /\ files' = Append(files,
            UploadFile(IF named THEN FileName ELSE <<>>, readable, <<>>))
  /\ UNCHANGED <<pc, transactions, subscriptions, comparison, heuristic,
                 claude, result, calls, categorized, other, prompts>>

\* One more row in the last file
UploadAddRow ==
  /\ pc = "upload_input"
  /\ files # <<>>
  /\ files[Len(files)].readable
  /\ TotalRows(files) < MaxRows
  /\ \E r \in 1..Len(UploadRows) :
       files' = [files EXCEPT ![Len(files)].rows = Append(@, UploadRows[r])]
  /\ UNCHANGED <<pc, transactions, subscriptions, comparison, heuristic,
                 claude, result, calls, categorized, other, prompts>>

\* analyze, lines 172-281: up to the call of analyze_transactions
Receive ==
  /\ pc = "upload_input"
  /\ \E file \in FileField, text \in TextField :
       LET handed == Handed(files, file, text)
       IN IF IsHttpError(handed)
            THEN /\ result' = handed
                 /\ pc' = "done"
                 /\ UNCHANGED transactions
            ELSE /\ transactions' = handed.all_transactions
                 /\ pc' = "input"
                 /\ UNCHANGED result
  /\ UNCHANGED <<files, subscriptions, comparison, heuristic, claude, calls,
                 categorized, other, prompts>>

\* analyze, lines 284-293: analyze_transactions on the list handed to it
UploadNext ==
  UploadAddFile \/ UploadAddRow \/ Receive \/ Analyze \/ ClaudeReturns

SpecUpload == UploadInit /\ [][UploadNext]_vars

----------------------------------------------------------------------------
(* Claims about the upload handler *)

\* The request took the branch of the files field with more than one file
\* and the handler passed a list on
MultiFileHanded ==
  /\ pc \in {"input", "enrich", "done"}
  /\ ~IsHttpError(result)
  /\ FilesGiven(files)
  /\ Len(files) > 1

\* C10: for multi-file input the list handed to the analysis holds no two
\* transactions equal on (date, normalised merchant, amount), and every
\* distinct such triple of the concatenation of the files, in file order, is
\* kept exactly once; each kept transaction is one of the concatenation.
C10_MergedOnce ==
  MultiFileHanded =>
    LET all == ConcatFiles(files)
    IN /\ \A i, j \in 1..Len(transactions) :
            TxnKey(transactions[i]) = TxnKey(transactions[j]) => i = j
       /\ {TxnKey(transactions[i]) : i \in 1..Len(transactions)} =
            {TxnKey(all[i]) : i \in 1..Len(all)}
       /\ \A i \in 1..Len(transactions) : transactions[i] \in Range(all)

\* Two files hold the same purchase in different words, next to another
\* purchase; one of the two is handed on
C10_Witness ==
  /\ MultiFileHanded
  /\ Len(files[1].rows) > 0
  /\ \E i \in 1..Len(files[1].rows), j \in 1..Len(files[2].rows) :
       /\ TxnKey(files[1].rows[i]) = TxnKey(files[2].rows[j])
       /\ files[1].rows[i] # files[2].rows[j]
  /\ Len(transactions) = 2
  /\ Len(ConcatFiles(files)) = 3

----------------------------------------------------------------------------
(* PDF statements: pdf_parser.py, pdf_to_csv *)

\* The extraction strategies, in the order pdf_to_csv tries them
strategies ==
  << "_extract_from_tables", "_extract_commbank_format", "_extract_nab_format",
     "_extract_us_bank_format", "_extract_anz_format",
     "_extract_westpac_multiline", "_extract_western_format",
     "_extract_from_text" >>

\* A field of a CSV line: text that float() rejects, or the text of a number
\* (in cents), of nan or of inf
Word(v) == [kind |-> "text", v |-> v]

Number(cents) == [kind |-> "number", v |-> cents]

NanField == [kind |-> "nan", v |-> 0]

InfField == [kind |-> "inf", v |-> 0]

\* 'Date,Description,Amount'
CsvHeader == <<Word("Date"), Word("Description"), Word("Amount")>>

\* A line without text
BlankLine == <<Word("")>>

\* A gate that takes any number for an amount
AnyAmount(field) == field.kind = "number"

\* 0 < amount <= 100000 on float(parts[-1].replace('"', '')); a text that is
\* no number raises ValueError and the line is passed over
ReasonableAmount(field) ==
  /\ field.kind = "number"
  /\ 0 < field.v
  /\ field.v <= 100000 * 100

\* _has_valid_data: csv_content is the sequence of its lines, a line the
\* sequence of its comma-separated fields
_has_valid_data(csv_content) ==
  LET lines == SelectSeq(csv_content, LAMBDA l : l # BlankLine)
  IN IF Len(lines) <= 1 THEN FALSE
     ELSE \E i \in 2..Len(lines) :
            /\ Len(lines[i]) >= 2
            /\ ReasonableAmount(lines[i][Len(lines[i])])

\* What a strategy does on a document: it raises, or it returns CSV content
Raises == [raises |-> TRUE]

Returns(csv_content) == [raises |-> FALSE, csv_content |-> csv_content]

\* if csv_content and _has_valid_data(csv_content)
Accepted(outcome) ==
  /\ ~outcome.raises
  /\ outcome.csv_content # <<>>
  /\ _has_valid_data(outcome.csv_content)

\* The strategy the loop calls next: the strategies are called in order
NextStrategy(called) == strategies[Cardinality(called) + 1]

----------------------------------------------------------------------------
(* PDF documents *)

MaxOutcomes == 2

\* A data line as the strategies write it: f"{date},{desc},{amount}"
CsvRow(strategy, amount) == <<Word("01/07/2025"), Word(strategy), amount>>

\* What a strategy may do on a document, other than returning '': raise,
\* or return a header alone, a row without header, a line without comma,
\* rows whose amount is negative, too large, nan, inf or no number, or rows
\* with an amount within the limits
Outcomes(strategy) ==
  { Raises,
    Returns(<<CsvHeader>>),
    Returns(<<CsvRow(strategy, Number(1250))>>),
    Returns(<<CsvHeader, BlankLine, <<Number(1250)>> >>),
    Returns(<<CsvHeader, CsvRow(strategy, Number(0 - 500))>>),
    Returns(<<CsvHeader, CsvRow(strategy, Number(100000 * 100 + 1))>>),
    Returns(<<CsvHeader, CsvRow(strategy, NanField), CsvRow(strategy, InfField)>>),
    Returns(<<CsvHeader, CsvRow(strategy, Number(100000 * 100))>>),
    Returns(<<CsvHeader, CsvRow(strategy, Word("n/a")),
              CsvRow(strategy, Number(1250))>>) }

\* A document on which every strategy returns ''
PdfDocument(opens) ==
  [opens |-> opens,
   outcome |-> [s \in Range(strategies) |-> Returns(<<>>)]]

PdfInit == pc = "pdf_input" /\ Idle

\* A PDF is uploaded; pdfplumber may fail to open it
PdfUpload ==
  /\ pc = "pdf_input"
  /\ files = <<>>
  /\ \E opens \in BOOLEAN : files' = <<PdfDocument(opens)>>
  /\ UNCHANGED <<pc, transactions, subscriptions, comparison, heuristic,
                 claude, result, calls, categorized, other, prompts>>

\* The document is one on which one more strategy does not return ''
PdfExtracts ==
  /\ pc = "pdf_input"
  /\ files # <<>>
  /\ files[1].opens
  /\ Cardinality({s \in Range(strategies) :
                    files[1].outcome[s] # Returns(<<>>)}) < MaxOutcomes
  /\ \E s \in Range(strategies) :
       /\ files[1].outcome[s] = Returns(<<>>)
       /\ \E o \in Outcomes(s) :
            files' = [files EXCEPT ![1].outcome[s] = o]
  /\ UNCHANGED <<pc, transactions, subscriptions, comparison, heuristic,
                 claude, result, calls, categorized, other, prompts>>

\* pdf_to_csv, lines 61-62 and 81-83: pdfplumber.open
PdfOpen ==
  /\ pc = "pdf_input"
  /\ files # <<>>
  /\ IF files[1].opens
       THEN pc' = "pdf_loop" /\ UNCHANGED result
       ELSE pc' = "done" /\ result' = <<>>
  /\ UNCHANGED <<files, transactions, subscriptions, comparison, heuristic,
                 claude, calls, categorized, other, prompts>>

\* pdf_to_csv, lines 75-83: one turn of the loop over the strategies, the
\* return after the loop, and the handler of the exception a strategy raises
PdfTry ==
  /\ pc = "pdf_loop"
  /\ IF Cardinality(calls) = Len(strategies)
       THEN /\ result' = <<>>
            /\ pc' = "done"
            /\ UNCHANGED calls
       ELSE LET strategy == NextStrategy(calls)
                outcome == files[1].outcome[strategy]
            IN /\ calls' = calls \cup {strategy}
               /\ IF outcome.raises
                    THEN result' = <<>> /\ pc' = "done"
                    ELSE IF Accepted(outcome)
                      THEN result' = outcome.csv_content /\ pc' = "done"
                      ELSE UNCHANGED <<result, pc>>
  /\ UNCHANGED <<files, transactions, subscriptions, comparison, heuristic,
                 claude, categorized, other, prompts>>

PdfNext == PdfUpload \/ PdfExtracts \/ PdfOpen \/ PdfTry

SpecPdf == PdfInit /\ [][PdfNext]_vars

----------------------------------------------------------------------------
(* Claims about pdf_to_csv *)

\* The output holds, after its first line, a line with a comma whose last
\* field is a number in (0, 100000]
HasPlausibleRow(o) ==
  /\ ~o.raises
  /\ LET lines == SelectSeq(o.csv_content, LAMBDA l : l # BlankLine)
     IN \E i \in 2..Len(lines) :
          LET last == lines[i][Len(lines[i])]
          IN /\ Len(lines[i]) >= 2
             /\ last.kind = "number"
             /\ last.v > 0
             /\ last.v <= 10000000

\* The strategies called, in the order of strategies
Called(k) == {strategies[i] : i \in 1..k}

\* C11: pdf_to_csv calls the strategies in the order of the list; it returns
\* the output of the first strategy whose output has a data row with an
\* amount in (0, 100000] and calls no strategy after it; outputs that fail
\* are passed over; when no strategy's output has such a row it returns ''.
\* (A strategy that raises has no output: that case is the matter of C12.)
C11_FirstAccepted ==
  /\ pc \in {"pdf_loop", "done"} => calls = Called(Cardinality(calls))
  /\ (pc = "done" /\ files # <<>> /\ files[1].opens) =>
       LET o == files[1].outcome
           stops == {k \in 1..Len(strategies) :
                       o[strategies[k]].raises \/ HasPlausibleRow(o[strategies[k]])}
           first == CHOOSE k \in stops : \A j \in stops : k <= j
       IN IF stops = {}
            THEN result = <<>> /\ calls = Range(strategies)
            ELSE /\ calls = Called(first)
                 /\ HasPlausibleRow(o[strategies[first]]) =>
                      result = o[strategies[first]].csv_content

\* A strategy's output without a plausible row is passed over and a later
\* strategy's output is returned
C11_Witness ==
  /\ pc = "done" /\ files # <<>> /\ files[1].opens
  /\ result # <<>>
  /\ Cardinality(calls) >= 2
  /\ \E s \in calls :
       /\ files[1].outcome[s].csv_content # <<>>
       /\ files[1].outcome[s].csv_content # result

\* C12: when some strategy's output on the document passes the gate,
\* pdf_to_csv returns data, whether or not an earlier strategy raises.
C12_DataWhenAnyPasses ==
  (/\ pc = "done" /\ files # <<>> /\ files[1].opens
   /\ \E s \in Range(strategies) : HasPlausibleRow(files[1].outcome[s]))
  => result # <<>>

\* A strategy raises, a later one would pass the gate, and nothing is returned
C12_RaiseHidesData ==
  /\ pc = "done" /\ files # <<>> /\ files[1].opens
  /\ \E i, j \in 1..Len(strategies) :
       /\ i < j
       /\ files[1].outcome[strategies[i]].raises
       /\ HasPlausibleRow(files[1].outcome[strategies[j]])
  /\ result = <<>>

----------------------------------------------------------------------------
(* subscription_detector.detect_price_changes *)

\* lines 300-310: a transaction is grouped when it has a merchant, a date
\* that parses and an amount above 0 (None > 0 raises, nan > 0 is false)
PricedTxn(t) ==
  /\ MerchantOrNormalized(t) # <<>>
  /\ parse_date(t.date) # NoDate
  /\ AmountIs(t) = "number"
  /\ t.amount > 0

\* line 306: amount > 0 raises TypeError when the date parses and the
\* amount is None
PriceChangesRaises(txns) ==
  \E i \in 1..Len(txns) :
    /\ MerchantOrNormalized(txns[i]) # <<>>
    /\ parse_date(txns[i].date) # NoDate
    /\ AmountIs(txns[i]) = "none"

\* txns.sort(key=lambda x: x["date"]): the sort is stable
RECURSIVE SortByDate(_)
SortByDate(txns) ==
  IF txns = <<>> THEN <<>>
  ELSE LET sorted == SortByDate(SubSeq(txns, 1, Len(txns) - 1))
           t == txns[Len(txns)]
           before == SelectSeq(sorted, LAMBDA x :
                       Ordinal(parse_date(x.date)) <= Ordinal(parse_date(t.date)))
           after == SelectSeq(sorted, LAMBDA x :
                      Ordinal(parse_date(x.date)) > Ordinal(parse_date(t.date)))
       IN before \o <<t>> \o after

\* Amounts are floats: an amount of c cents is the double nearest to c/100,
\* and a difference of two amounts is the rounded difference of two doubles.
\* It differs from the difference in cents only when compared with a bound
\* it meets exactly.
\* 2^n, by squaring 2^(n \div 2)
RECURSIVE Pow2(_)
Pow2(n) ==
  IF n <= 0 THEN 1
  ELSE LET half == Pow2(n \div 2)
       IN IF n % 2 = 0 THEN half * half ELSE 2 * half * half

\* 2^n modulo 100, by squaring 2^(n \div 2) modulo 100
RECURSIVE Pow2Mod100(_)
Pow2Mod100(n) ==
  IF n <= 0 THEN 1
  ELSE LET half == Pow2Mod100(n \div 2)
       IN IF n % 2 = 0 THEN (half * half) % 100
          ELSE (2 * half * half) % 100

RECURSIVE ExponentUp(_, _)
ExponentUp(c, e) == IF 100 * Pow2(e + 1) <= c THEN ExponentUp(c, e + 1) ELSE e

RECURSIVE ExponentDown(_, _)
ExponentDown(c, n) == IF c * Pow2(n) < 100 THEN ExponentDown(c, n + 1) ELSE n

\* The binary exponent e of c/100: 2^e <= c/100 < 2^(e+1), for c > 0
BinaryExponent(c) ==
  IF c >= 100 THEN ExponentUp(c, 0) ELSE 0 - ExponentDown(c, 0)

\* float(c/100) - c/100, in hundredths of the unit in the last place (2^(e-52))
\* of float(c/100): the 53-bit significand is c * 2^(52-e) / 100 rounded to
\* the nearest integer (a tie cannot occur)
RoundingError(c) ==
  LET r == ((c % 100) * Pow2Mod100(52 - BinaryExponent(c))) % 100
  IN IF r <= 50 THEN 0 - r ELSE 100 - r

\* The exact difference of the doubles of high and low cents, less
\* (high - low)/100, in hundredths of the unit in the last place of low
FloatExcess(low, high) ==
  RoundingError(high) * Pow2(BinaryExponent(high) - BinaryExponent(low))
    - RoundingError(low)

\* float(high/100) - float(low/100) > 2^e, where high - low is 100 * 2^e cents
FloatDiffAbove(low, high, e) ==
  LET n == e - BinaryExponent(low)
  IN IF n <= 0 THEN FloatExcess(low, high) > 0
     ELSE 2 * FloatExcess(low, high) > 100 * Pow2(n)

\* float(high/100) - float(low/100) >= 2^e, where high - low is 100 * 2^e cents
FloatDiffAtLeast(low, high, e) ==
  LET n == e - BinaryExponent(low)
  IN IF n <= 0 THEN FloatExcess(low, high) >= 0
     ELSE 4 * FloatExcess(low, high) >= 0 - 100 * Pow2(n)

\* line 325: last_amount is None or abs(t["amount"] - last_amount) > 0.50
FarFromKept(kept, t) ==
  IF kept = <<>> THEN TRUE
  ELSE LET last_amount == kept[Len(kept)].amount
           low == IF t.amount < last_amount THEN t.amount ELSE last_amount
           high == IF t.amount < last_amount THEN last_amount ELSE t.amount
       IN IF high - low = 50 THEN FloatDiffAbove(low, high, 0 - 1)
          ELSE high - low > 50

\* lines 322-330: unique_amounts of the date-ordered transactions
RECURSIVE UniqueAmounts(_)
UniqueAmounts(txns) ==
  IF txns = <<>> THEN <<>>
  ELSE LET kept == UniqueAmounts(SubSeq(txns, 1, Len(txns) - 1))
           t == txns[Len(txns)]
       IN IF FarFromKept(kept, t) THEN Append(kept, t) ELSE kept

\* line 343: price_diff >= 1.0 or pct_change >= 5, for a first amount above 0;
\* the amounts of the model put no rise below 1.00 at exactly 5 percent
Significant(price_diff, first_amount) ==
  \/ IF price_diff = 100
       THEN FloatDiffAtLeast(first_amount, first_amount + 100, 0)
       ELSE price_diff > 100
  \/ (first_amount > 0 /\ price_diff * 100 >= 5 * first_amount)

\* lines 314-353: the price change of a group, as a list of 0 or 1 entry;
\* percent_change is in tenths of a percent
GroupPriceChange(merchant, txns) ==
  LET unique_amounts == UniqueAmounts(SortByDate(txns))
      first == unique_amounts[1]
      last == unique_amounts[Len(unique_amounts)]
      price_diff == last.amount - first.amount
  IN IF Len(txns) < 2 THEN <<>>
     ELSE IF Len(unique_amounts) < 2 THEN <<>>
     ELSE IF Significant(price_diff, first.amount)
       THEN << [merchant |-> merchant,
                old_price |-> first.amount,
                new_price |-> last.amount,
                increase |-> price_diff,
                percent_change |-> RoundDiv(price_diff * 1000, first.amount),
                first_date |-> parse_date(first.date),
                latest_date |-> parse_date(last.date),
                yearly_impact |-> price_diff * 12] >>
     ELSE <<>>

RECURSIVE PriceChangesOf(_, _)
PriceChangesOf(txns, groups) ==
  IF groups = <<>> THEN <<>>
  ELSE GroupPriceChange(Head(groups),
                        SelectSeq(txns, LAMBDA t : SubscriptionKey(t) = Head(groups)))
         \o PriceChangesOf(txns, Tail(groups))

\* How many price changes are returned
PriceChangeCap == 10

\* detect_price_changes, when it does not raise
detect_price_changes(txns) ==
  LET priced == SelectSeq(txns, PricedTxn)
      groups == FirstOccurrences([i \in 1..Len(priced) |-> SubscriptionKey(priced[i])])
  IN Take(SortDescBy(PriceChangesOf(priced, groups), "yearly_impact"),
          PriceChangeCap)

----------------------------------------------------------------------------
(* The detectors on malformed transactions *)

MaxOdd == 3

Netflix == <<"N","E","T","F","L","I","X">>

\* Dates that parse, 63 days apart, a date that does not, and no date
OddDates == <<Ymd(2025, 1, 1), Ymd(2025, 3, 5), JunkDate, EmptyDate>>

\* Transactions of one merchant: charges of 10.00 and 12.00, and
\* transactions whose amount is None, nan or missing
OddRows ==
  {RawTxn(d, Netflix, a) : d \in Range(OddDates), a \in {1000, 1200}}
    \cup {OddTxn(d, Netflix, k) : d \in Range(OddDates),
                                  k \in {"none", "nan", "missing"}}

OddInit == pc = "odd_input" /\ Idle

OddAddTxn ==
  /\ pc = "odd_input"
  /\ Len(transactions) < MaxOdd
  /\ \E t \in OddRows : transactions' = Append(transactions, t)
  /\ UNCHANGED <<pc, files, subscriptions, comparison, heuristic, claude,
                 result, calls, categorized, other, prompts>>

\* The three detectors are called on the list; result.raised names the ones
\* that raise
OddRun ==
  /\ pc = "odd_input"
  /\ pc' = "done"
  /\ subscriptions' = detect_subscriptions(transactions)
  /\ comparison' = IF MonthComparisonRaises(transactions) THEN None
                   ELSE generate_month_comparison(transactions)
  /\ result' =
       [raised |->
          (IF MonthComparisonRaises(transactions)
             THEN {"generate_month_comparison"} ELSE {})
            \cup (IF PriceChangesRaises(transactions)
                    THEN {"detect_price_changes"} ELSE {}),
        price_changes |->
          IF PriceChangesRaises(transactions) THEN <<>>
          ELSE detect_price_changes(transactions)]
  /\ UNCHANGED <<files, transactions, heuristic, claude, calls, categorized,
                 other, prompts>>

OddNext == OddAddTxn \/ OddRun

SpecOdd == OddInit /\ [][OddNext]_vars

----------------------------------------------------------------------------
(* Claims about malformed input *)

\* The list holds a transaction whose date or amount is malformed
HasOddTxn ==
  \E i \in 1..Len(transactions) :
    \/ parse_date(transactions[i].date) = NoDate
    \/ AmountIs(transactions[i]) # "number"

\* C13: detect_subscriptions, generate_month_comparison and
\* detect_price_changes do not raise on a list that holds transactions with
\* a missing or unparseable date or a missing, null or nan amount.
C13_NeverRaises ==
  (pc = "done" /\ HasOddTxn) => result.raised = {}

\* Two charges 63 days apart and a transaction with a date and the amount
\* None: the month comparison and the price changes raise, the
\* subscriptions are reported
C13_NullAmountRaises ==
  /\ pc = "done"
  /\ \E i \in 1..Len(transactions) :
       /\ AmountIs(transactions[i]) = "none"
       /\ parse_date(transactions[i].date) # NoDate
  /\ result.raised = {"generate_month_comparison", "detect_price_changes"}
  /\ Len(subscriptions) = 1

----------------------------------------------------------------------------
(* The detector on charges and refunds *)

MaxSigned == 3

\* A known subscription, a recurring-payment keyword, and neither
SignedMerchants ==
  << <<"N","e","t","f","l","i","x">>,
     <<"B","P","A","Y"," ","W","A","T","E","R">>,
     <<"A","C","M","E"," ","C","O">> >>

\* Dates 30 days apart
SignedDates ==
  <<Ymd(2025, 1, 1), Ymd(2025, 1, 31), Ymd(2025, 3, 2), Ymd(2025, 4, 1)>>

\* A refund of 12.00, a line of 0.00, and charges of 12.00 and 30.00
SignedAmounts == <<0 - 1200, 0, 1200, 3000>>

SignedInit == pc = "signed_input" /\ Idle

\* One more transaction of the merchant, on a later date
SignedAddTxn ==
  /\ pc = "signed_input"
  /\ Len(transactions) < MaxSigned
  /\ \E m \in Range(SignedMerchants), d \in Range(SignedDates),
        a \in Range(SignedAmounts) :
       /\ transactions # <<>> =>
            /\ m = transactions[1].merchant
            /\ PosIn(SignedDates, d)
                 > PosIn(SignedDates, transactions[Len(transactions)].date)
       /\ transactions' = Append(transactions, RawTxn(d, m, a))
  /\ UNCHANGED <<pc, files, subscriptions, comparison, heuristic, claude,
                 result, calls, categorized, other, prompts>>

SignedRun ==
  /\ pc = "signed_input"
  /\ subscriptions' = detect_subscriptions(transactions)
  /\ pc' = "detected"
  /\ UNCHANGED <<files, transactions, comparison, heuristic, claude, result,
                 calls, categorized, other, prompts>>

SignedNext == SignedAddTxn \/ SignedRun

SpecSigned == SignedInit /\ [][SignedNext]_vars

----------------------------------------------------------------------------
(* Claims about the subscriptions returned *)

\* The confidence the rules give a group, 0 when no rule holds
RuleConfidence(k) ==
  LET amounts == AmountsOf(k)
      n == Len(amounts)
      per == IsPeriodic(DatesOf(k))
      con == IsConsistent(amounts)
  IN IF IsKnown(k) THEN 95
     ELSE IF IsRecurring(k) /\ n >= 3 /\ per THEN 90
     ELSE IF n >= 3 /\ con /\ per THEN 85
     ELSE IF IsRecurring(k) /\ n >= 3 /\ IsLooselyConsistent(amounts) THEN 75
     ELSE IF n >= 2 /\ con THEN 70
     ELSE 0

\* C14: every subscription detect_subscriptions returns has a confidence
\* among 0.6, 0.7, 0.75, 0.85, 0.9 and 0.95 and a group whose amounts have an
\* average above 0; a group to which no rule gives a confidence, or whose
\* average amount is 0 or less, is not returned.
C14_ConfidentAndPositive ==
  pc = "detected" =>
    /\ \A i \in 1..Len(subscriptions) :
         /\ subscriptions[i].confidence \in {60, 70, 75, 85, 90, 95}
         /\ subscriptions[i].merchant \in GroupKeys
         /\ SumSeq(AmountsOf(subscriptions[i].merchant)) > 0
    /\ \A k \in GroupKeys :
         (RuleConfidence(k) = 0 \/ SumSeq(AmountsOf(k)) <= 0) => ~Reported(k)

\* A known subscription whose refunds outweigh its charges is not returned
C14_Witness ==
  /\ pc = "detected"
  /\ \E k \in GroupKeys :
       /\ IsKnown(k)
       /\ Len(AmountsOf(k)) = 3
       /\ SumSeq(AmountsOf(k)) < 0
       /\ \E i \in 1..3 : AmountsOf(k)[i] > 0
  /\ subscriptions = <<>>

----------------------------------------------------------------------------
(* The heuristic analysis on many leaks *)

MaxLeaks == 3

\* Merchants with a fee keyword or a food-delivery keyword in their name
LeakMerchants ==
  << <<"A","T","M">>, <<"D","O","O","R","D","A","S","H">>,
     <<"F","X">>, <<"M","E","N","U","L","O","G">>,
     <<"O","V","E","R","D","R","A","F","T">>, <<"D","E","L","I","V","E","R","O","O">>,
     <<"S","E","R","V","I","C","E">>, <<"G","R","U","B","H","U","B">>,
     <<"C","H","A","R","G","E">>, <<"P","O","S","T","M","A","T","E","S">>,
     <<"M","A","I","N","T","E","N","A","N","C","E">>, <<"C","A","V","I","A","R">>,
     <<"L","A","T","E"," ","F","E","E">> >>

LeakAmounts == <<300, 600, 900>>

\* How many merchants a statement may start with
LeakRunLength == 8

\* One purchase at each of the first 8 merchants, of 3.00 and 9.00 in turn
LeakRun ==
  [i \in 1..LeakRunLength |->
     RawTxn(Ymd(2025, 1, 1), LeakMerchants[i], LeakAmounts[1 + 2 * (i % 2)])]

\* The merchants after those of the run
LaterMerchants == SubSeq(LeakMerchants, LeakRunLength + 1, Len(LeakMerchants))

\* The purchases that were added one by one
LaterTxns(txns) == SelectSeq(txns, LAMBDA t : t.merchant \in Range(LaterMerchants))

\* A subscription of 2.00 a month, as detect_subscriptions reports it
LeakSubscription ==
  [merchant |-> <<"N","E","T","F","L","I","X">>, monthly_cost |-> 200,
   annual_cost |-> 2400, confidence |-> 95, last_date |-> NoDate,
   occurrences |-> 1, reason |-> "Known subscription service"]

LeaksInit == pc = "leaks_input" /\ Idle

\* The statement starts with the run
LeaksAddRun ==
  /\ pc = "leaks_input"
  /\ transactions = <<>>
  /\ transactions' = LeakRun
  /\ UNCHANGED <<pc, files, subscriptions, comparison, heuristic, claude,
                 result, calls, categorized, other, prompts>>

\* One purchase at the next of the later merchants
LeaksAddTxn ==
  /\ pc = "leaks_input"
  /\ Len(LaterTxns(transactions)) < MaxLeaks
  /\ Len(LaterTxns(transactions)) < Len(LaterMerchants)
  /\ \E a \in Range(LeakAmounts) :
       transactions' = Append(transactions,
         RawTxn(Ymd(2025, 1, 1),
                LaterMerchants[Len(LaterTxns(transactions)) + 1], a))
  /\ UNCHANGED <<pc, files, subscriptions, comparison, heuristic, claude,
                 result, calls, categorized, other, prompts>>

\* _heuristic_analysis is called with the list and the subscriptions
LeaksRun ==
  /\ pc = "leaks_input"
  /\ pc' = "done"
  /\ \E subs \in {<<>>, <<LeakSubscription>>} :
       /\ subscriptions' = subs
       /\ heuristic' = _heuristic_analysis(transactions, subs)
  /\ UNCHANGED <<files, transactions, comparison, claude, result, calls,
                 categorized, other, prompts>>

LeaksNext == LeaksAddRun \/ LeaksAddTxn \/ LeaksRun

SpecLeaks == LeaksInit /\ [][LeaksNext]_vars

----------------------------------------------------------------------------
(* Claims about the list of leaks *)

\* The leaks of the four kinds, in the order they are found
FoundLeaks ==
  LET subscription_merchants ==
        {subscriptions[i].merchant : i \in 1..Len(subscriptions)}
  IN SubscriptionLeaks(subscriptions)
       \o _detect_fees(transactions, subscription_merchants)
       \o _detect_food_delivery(transactions, subscription_merchants)
       \o _detect_micro_leaks(transactions, subscription_merchants)

\* C15: top_leaks holds the subscription, fee, food-delivery and
\* micro-purchase leaks in descending order of monthly cost, cut after the
\* first 10: at most 10 entries, each one a leak that was found, none twice,
\* and none cheaper than a leak that is left out.
C15_TopTen ==
  pc = "done" =>
    LET top == heuristic.top_leaks
        found == Range(FoundLeaks)
    IN /\ Len(top) = IF Len(FoundLeaks) < 10 THEN Len(FoundLeaks) ELSE 10
       /\ \A i, j \in 1..Len(top) :
            i < j => top[i].monthly_cost >= top[j].monthly_cost
       /\ \A i, j \in 1..Len(top) : top[i] = top[j] => i = j
       /\ Range(top) \subseteq found
       /\ \A x \in found \ Range(top) : \A y \in Range(top) :
            y.monthly_cost >= x.monthly_cost

\* Twelve leaks of three kinds are found and two of them are left out
C15_Witness ==
  /\ pc = "done"
  /\ Len(FoundLeaks) = 12
  /\ Len(heuristic.top_leaks) = 10
  /\ {heuristic.top_leaks[i].category : i \in 1..10}
       = {"Subscription", "Fees & Charges", "Food Delivery"}
  /\ heuristic.top_leaks[1].monthly_cost > heuristic.top_leaks[10].monthly_cost
  /\ \E i \in 1..12 : FoundLeaks[i] \notin Range(heuristic.top_leaks)

----------------------------------------------------------------------------
(* Merchant texts *)

MaxTokens == 3

\* Pieces of merchant text: a space, a star, a letter, a noise word, a name
\* that ends in the start of a noise word, and payment-processor marks
MerchantTokens ==
  { <<" ">>, <<"*">>, <<"S">>, <<"P","O","S">>,
    <<"C","a","f","e"," ","P","O">>, <<"P","P">>,
    <<"S","Q"," ","*","x">> }

NormalizeInit == pc = "merchant_input" /\ Idle

\* The merchant text grows by one piece; other[1] is the text, other[2] the
\* number of its pieces
NormalizeAddToken ==
  /\ pc = "merchant_input"
  /\ IF other = <<>> THEN TRUE ELSE other[2] < MaxTokens
  /\ \E t \in MerchantTokens :
       other' = IF other = <<>> THEN <<t, 1>>
                ELSE <<other[1] \o t, other[2] + 1>>
  /\ UNCHANGED <<pc, files, transactions, subscriptions, comparison,
                 heuristic, claude, result, calls, categorized, prompts>>

\* The text is normalised by the categorizer and by the parser, once and
\* again
NormalizeRun ==
  /\ pc = "merchant_input"
  /\ other # <<>>
  /\ pc' = "done"
  /\ result' =
       LET categorizer == normalize_merchant(other[1])
           parser == parser_normalize_merchant(other[1])
           both == normalize_merchant(parser)
       IN [categorizer |-> categorizer,
           categorizer_again |-> normalize_merchant(categorizer),
           parser |-> parser,
           parser_again |-> parser_normalize_merchant(parser),
           both |-> both,
           both_again |-> normalize_merchant(both)]
  /\ UNCHANGED <<files, transactions, subscriptions, comparison, heuristic,
                 claude, calls, categorized, other, prompts>>

NormalizeNext == NormalizeAddToken \/ NormalizeRun

SpecNormalize == NormalizeInit /\ [][NormalizeNext]_vars

----------------------------------------------------------------------------
(* Claims about merchant normalisation *)

\* C16: the categorizer's normalize_merchant returns no empty text for a
\* text that is not empty; when stripping the noise leaves nothing, the
\* result is the upper-cased, trimmed text.
C16_NeverEmpty ==
  pc = "done" =>
    /\ result.categorizer # <<>>
    /\ TrimPunctuation(Strip(CollapseSpaces(
         StripNoise(Strip(Upper(other[1])),
                    1, Len(NOISE_PATTERNS))))) = <<>>
         => result.categorizer = Strip(Upper(other[1]))

\* A text of spaces is normalised to the empty text
C16_SpacesToEmpty ==
  /\ pc = "done"
  /\ other[1] # <<>>
  /\ \A i \in 1..Len(other[1]) : other[1][i] = " "
  /\ result.categorizer = <<>>

\* C17: normalising a merchant a second time changes nothing, with the
\* categorizer's normalize_merchant, with the parser's, and with the
\* categorizer's applied to what the parser's returns.
C17_Idempotent ==
  pc = "done" =>
    /\ result.categorizer_again = result.categorizer
    /\ result.parser_again = result.parser
    /\ result.both_again = result.both

\* "Cafe PO*S" becomes "CAFE POS" and then "CAFE"
C17_SecondPassStripsMore ==
  /\ pc = "done"
  /\ other[1] = <<"C","a","f","e"," ","P","O","*","S">>
  /\ result.categorizer = <<"C","A","F","E"," ","P","O","S">>
  /\ result.categorizer_again = <<"C","A","F","E">>
  /\ result.both_again # result.both
----------------------------------------------------------------------------
(* Redaction before the LLM call (redactor.py) *)

\* A description is a sequence of words separated by single spaces.  The
\* words of the model are chosen so that no pattern matches across two words.
REDACTED == "[REDACTED]"

\* The words of the model matched by one of _PATTERNS: an e-mail address
\* (_EMAIL_RE) and a reference id (_REFERENCE_RE)
_PATTERNS == {"john@example.com", "REF:ABC123"}

\* The digits of the word matched by a pattern of _CONTEXTUAL_PATTERNS
\* (_ACCOUNT_LONG_RE, _US_ZIP_RE, _AU_POSTCODE_RE); 0 when the word has none
DigitRun(word) ==
  CASE word = "123456789" -> 9
    [] word = "$123456789" -> 9
    [] word = "2000" -> 4
    [] OTHER -> 0

\* result[start - 1] in "$..." : the digits follow a currency symbol
AfterCurrency(word) == word = "$123456789"

\* Pass 2 on one word: a digit run is replaced unless it follows a currency
\* symbol or has fewer than 6 digits
_contextual_sub(word) ==
  IF DigitRun(word) = 0 \/ AfterCurrency(word) \/ DigitRun(word) < 6
  THEN word
  ELSE REDACTED

\* Pass 1 on one word
PatternSub(word) == IF word \in _PATTERNS THEN REDACTED ELSE word

\* Consecutive [REDACTED] tokens become one
RECURSIVE CollapseRedacted(_)
CollapseRedacted(words) ==
  IF Len(words) < 2 THEN words
  ELSE IF words[1] = REDACTED /\ words[2] = REDACTED
       THEN CollapseRedacted(Tail(words))
       ELSE <<words[1]>> \o CollapseRedacted(Tail(words))

RECURSIVE RedactWords(_)
RedactWords(words) ==
  IF words = <<>> THEN <<>>
  ELSE <<_contextual_sub(PatternSub(words[1]))>> \o RedactWords(Tail(words))

\* redact_text
redact_text(text) ==
  IF text = <<>> THEN text ELSE CollapseRedacted(RedactWords(text))

\* txn.get("description") or txn.get("original_merchant")
\*   or txn.get("merchant") or ""
raw_description(txn) ==
  IF Get(txn, "description", <<>>) # <<>> THEN txn.description
  ELSE IF Get(txn, "original_merchant", <<>>) # <<>> THEN txn.original_merchant
  ELSE Get(txn, "merchant", <<>>)

\* A record that keeps every field of the transaction and redacts its
\* description
RedactedCopy(txn) ==
  [k \in DOMAIN txn \cup {"description"} |->
     IF k = "description" THEN redact_text(raw_description(txn)) ELSE txn[k]]

\* The record appended for one transaction
Redacted(txn) ==
  [date |-> Get(txn, "date", ""),
   description |-> redact_text(raw_description(txn)),
   amount |-> Get(txn, "amount", 0),
   category |-> Get(txn, "category", "")]

\* redact_transactions: a new list, one record per transaction
RECURSIVE redact_transactions(_)
redact_transactions(txns) ==
  IF txns = <<>> THEN <<>>
  ELSE <<Redacted(txns[1])>> \o redact_transactions(Tail(txns))

MaxRedact == 2

RedactFields ==
  {"date", "description", "amount", "category", "merchant", "original_merchant"}

RedactDescriptions ==
  { <<>>,
    <<"NETFLIX">>,
    <<"Payment", "john@example.com", "REF:ABC123">>,
    <<"ACC:", "123456789">>,
    <<"$123456789", "2000">> }

\* The value a caller stores under a field
RedactValue(field, description, amount) ==
  CASE field = "date" -> "2025-03-10"
    [] field = "description" -> description
    [] field = "amount" -> amount
    [] field = "category" -> "Transfer"
    [] field = "merchant" -> <<"Sent", "john@example.com">>
    [] field = "original_merchant" -> <<"SPOTIFY", "123456789">>

RedactInit == pc = "redact_input" /\ Idle

\* The caller appends a transaction holding some of the fields
RedactAddTxn ==
  /\ pc = "redact_input"
  /\ Len(transactions) < MaxRedact
  /\ \E fields \in SUBSET RedactFields :
       \E description \in RedactDescriptions :
         \E amount \in {-2999, 1000} :
           /\ ("description" \notin fields => description = <<>>)
           /\ ("amount" \notin fields => amount = 1000)
           /\ transactions' = Append(transactions,
                [k \in fields |-> RedactValue(k, description, amount)])
  /\ UNCHANGED <<pc, files, subscriptions, comparison, heuristic, claude,
                 result, calls, categorized, other, prompts>>

\* redact_transactions(transactions); other holds the list as it was before
\* the call, transactions the list as it is after
RedactRun ==
  /\ pc = "redact_input"
  /\ pc' = "redacted"
  /\ other' = transactions
  /\ result' = redact_transactions(transactions)
  /\ UNCHANGED <<files, transactions, subscriptions, comparison, heuristic,
                 claude, calls, categorized, prompts>>

RedactNext == RedactAddTxn \/ RedactRun

SpecRedact == RedactInit /\ [][RedactNext]_vars

\* C18: redact_transactions returns a list of the same length and order as
\* its input; every record has exactly the fields date, description, amount
\* and category; date, amount and category are the input record's values
\* (the defaults "", 0 and "" for a field the input record lacks); the input
\* list and its records are as they were before the call.
C18_SameShape ==
  pc = "redacted" =>
    /\ Len(result) = Len(other)
    /\ transactions = other
    /\ \A i \in 1..Len(other) :
         /\ DOMAIN result[i] = {"date", "description", "amount", "category"}
         /\ result[i].date = Get(other[i], "date", "")
         /\ result[i].amount = Get(other[i], "amount", 0)
         /\ result[i].category = Get(other[i], "category", "")

\* Two transactions, the first with an extra field and a redacted
\* description, the second without a category
C18_Witness ==
  /\ pc = "redacted"
  /\ Len(result) = 2
  /\ "merchant" \in DOMAIN other[1]
  /\ {"date", "amount", "category", "description"} \subseteq DOMAIN other[1]
  /\ other[1].amount = -2999
  /\ REDACTED \in Range(result[1].description)
  /\ other[1].description # result[1].description
  /\ "category" \notin DOMAIN other[2]
  /\ result[2].category = ""
----------------------------------------------------------------------------
(* categorize_transaction on its own *)

CategorizeWords ==
  { <<"N","e","t","f","l","i","x">>,
    <<"S","a","l","a","r","y">>,
    <<"U","b","e","r">>,
    <<"E","a","t","s">>,
    <<"C","o","f","f","e","e"," ","B","e","a","n">>,
    <<"T","-","M","o","b","i","l","e">>,
    <<"C","o","r","n","e","r">>,
    <<"B","o","o","k","i","n","g",".","c","o","m">> }

\* Amounts in cents around the two thresholds 0 and 15
CategorizeAmounts == {-500, 0, 1499, 1500, 5000}

CategorizeInit == pc = "categorize_input" /\ Idle

\* The caller names the merchant
CategorizeMerchant ==
  /\ pc = "categorize_input"
  /\ other = <<>>
  /\ \E merchant \in CategorizeWords :
       other' = [merchant |-> merchant, description |-> <<>>]
  /\ UNCHANGED <<pc, files, transactions, subscriptions, comparison,
                 heuristic, claude, result, calls, categorized, prompts>>

\* The caller gives a description
CategorizeDescription ==
  /\ pc = "categorize_input"
  /\ other # <<>>
  /\ IF other = <<>> THEN FALSE ELSE other.description = <<>>
  /\ \E description \in CategorizeWords :
       other' = [other EXCEPT !.description = description]
  /\ UNCHANGED <<pc, files, transactions, subscriptions, comparison,
                 heuristic, claude, result, calls, categorized, prompts>>

\* categorize_transaction(merchant, amount, description)
CategorizeRun ==
  /\ pc = "categorize_input"
  /\ other # <<>>
  /\ pc' = "categorized"
  /\ \E amount \in CategorizeAmounts :
       LET verdict ==
             categorize_transaction(other.merchant, amount, other.description)
       IN result' = [category |-> verdict[1], confidence |-> verdict[2],
                     amount |-> amount]
  /\ UNCHANGED <<files, transactions, subscriptions, comparison, heuristic,
                 claude, calls, categorized, other, prompts>>

CategorizeNext == CategorizeMerchant \/ CategorizeDescription \/ CategorizeRun

SpecCategorize == CategorizeInit /\ [][CategorizeNext]_vars

\* The order of the categories as the specification lists it
ListedOrder ==
  << "Income", "Transfers", "Subscriptions", "Fees", "Groceries",
     "Dining & Delivery", "Transport", "Shopping", "Utilities & Bills",
     "Health & Fitness", "Entertainment", "Travel" >>

\* The categories, by position, with a keyword in the searched text
KeywordHits ==
  {k \in 1..Len(CategoryOrder) :
     AnyKeyword(CategoryOrder[k].kws,
                Upper(other.merchant \o <<" ">> \o other.description))}

\* C19: the result is the first category of the listed order with a keyword
\* in the uppercased "merchant description" text, at confidence 0.9; with no
\* keyword it is Income at 0.5 for a negative amount, Other at 0.3 for an
\* amount in [0, 15) and Other at 0.2 otherwise.
C19_FirstKeywordCategory ==
  pc = "categorized" =>
    /\ \A k \in KeywordHits :
         (\A j \in KeywordHits : k <= j) =>
           /\ result.category = ListedOrder[k]
           /\ result.confidence = 90
    /\ KeywordHits = {} =>
         /\ result.amount < 0 =>
              result.category = "Income" /\ result.confidence = 50
         /\ (0 <= result.amount /\ result.amount < 1500) =>
              result.category = "Other" /\ result.confidence = 30
         /\ result.amount >= 1500 =>
              result.category = "Other" /\ result.confidence = 20

\* Keywords of two categories occur and the earlier category wins
C19_Witness ==
  /\ pc = "categorized"
  /\ KeywordHits = {4, 6}
  /\ result.category = "Fees"
  /\ result.confidence = 90

\* No keyword occurs and the amount is just below 15
C19_SmallOther ==
  /\ pc = "categorized"
  /\ KeywordHits = {}
  /\ result.amount = 1499
  /\ result.category = "Other"
  /\ result.confidence = 30
----------------------------------------------------------------------------
(* detect_price_changes on its own *)

MaxPrice == 3

PriceLetters ==
  <<"A","B","C","D","E","F","G","H","I","J","K","L","M","N">>

PriceMerchant(i) == <<"S","U","B"," ",PriceLetters[i]>>

\* Old and new price of 14 merchants: eleven rises of 1.50 to 11.00 on
\* 10.00, a rise of 0.75 on 20.00, a rise of 1.00 on 31.01 and a fall
PriceBlockPrices ==
  << <<1000, 1300>>, <<1000, 2100>>, <<1000, 1500>>, <<1000, 1900>>,
     <<1000, 1200>>, <<1000, 2000>>, <<1000, 1400>>, <<1000, 1800>>,
     <<1000, 1150>>, <<1000, 1700>>, <<1000, 1600>>,
     <<2000, 2075>>, <<3101, 3201>>, <<1500, 1300>> >>

\* Two charges of each merchant, a month apart
PriceBlock ==
  [j \in 1..(2 * Len(PriceBlockPrices)) |->
     RawTxn(Ymd(2025, 1 + ((j + 1) % 2), 1), PriceMerchant((j + 1) \div 2),
            PriceBlockPrices[(j + 1) \div 2][1 + ((j + 1) % 2)])]

PriceDates == <<Ymd(2025, 1, 1), Ymd(2025, 2, 1), Ymd(2025, 3, 1)>>

PriceAmounts == <<199, 249, 299, 1000, 1040, 1080>>

\* The charges that were added one by one
NetflixTxns(txns) == SelectSeq(txns, LAMBDA t : t.merchant = Netflix)

PriceInit == pc = "price_input" /\ Idle

\* The statement starts with the charges of the 14 merchants
PriceAddBlock ==
  /\ pc = "price_input"
  /\ transactions = <<>>
  /\ transactions' = PriceBlock
  /\ UNCHANGED <<pc, files, subscriptions, comparison, heuristic, claude,
                 result, calls, categorized, other, prompts>>

\* One more charge of Netflix, in any order of dates
PriceAddTxn ==
  /\ pc = "price_input"
  /\ Len(NetflixTxns(transactions)) < MaxPrice
  /\ \E d \in Range(PriceDates), a \in Range(PriceAmounts) :
       transactions' = Append(transactions, RawTxn(d, Netflix, a))
  /\ UNCHANGED <<pc, files, subscriptions, comparison, heuristic, claude,
                 result, calls, categorized, other, prompts>>

\* detect_price_changes(transactions)
PriceRun ==
  /\ pc = "price_input"
  /\ pc' = "priced"
  /\ result' = detect_price_changes(transactions)
  /\ UNCHANGED <<files, transactions, subscriptions, comparison, heuristic,
                 claude, calls, categorized, other, prompts>>

PriceNext == PriceAddBlock \/ PriceAddTxn \/ PriceRun

SpecPrice == PriceInit /\ [][PriceNext]_vars

\* The distinct prices as the specification defines them: of the date-ordered
\* amounts, one that is within 0.50 of the last distinct price is dropped
RECURSIVE DistinctPrices(_)
DistinctPrices(txns) ==
  IF txns = <<>> THEN <<>>
  ELSE LET kept == DistinctPrices(SubSeq(txns, 1, Len(txns) - 1))
           t == txns[Len(txns)]
       IN IF kept = <<>> THEN <<t>>
          ELSE IF t.amount - kept[Len(kept)].amount > 50
                  \/ kept[Len(kept)].amount - t.amount > 50
            THEN Append(kept, t)
          ELSE kept

\* The distinct prices of a reported merchant
DistinctPricesOf(merchant) ==
  DistinctPrices(SortByDate(
    SelectSeq(transactions, LAMBDA t : PricedTxn(t) /\ SubscriptionKey(t) = merchant)))

\* Every price change found, before the cut to 10
AllPriceChanges ==
  LET priced == SelectSeq(transactions, PricedTxn)
  IN PriceChangesOf(priced,
       FirstOccurrences([i \in 1..Len(priced) |-> SubscriptionKey(priced[i])]))

\* C20: a merchant is reported only if its last distinct price exceeds its
\* first distinct price by at least 1.00 or by at least 5 percent, distinct
\* prices being the date-ordered amounts with amounts within 0.50 collapsed;
\* every entry has new_price > old_price and yearly_impact = 12 x increase;
\* the output holds at most 10 entries, those of largest yearly impact, in
\* descending order.
C20_OnlySignificantRises ==
  pc = "priced" =>
    /\ Len(result) <= 10
    /\ \A i \in 1..Len(result) :
         LET prices == DistinctPricesOf(result[i].merchant)
             rise == prices[Len(prices)].amount - prices[1].amount
         IN /\ rise >= 100 \/ rise * 100 >= 5 * prices[1].amount
            /\ result[i].new_price > result[i].old_price
            /\ result[i].yearly_impact = 12 * result[i].increase
    /\ \A i \in 1..(Len(result) - 1) :
         result[i].yearly_impact >= result[i + 1].yearly_impact
    /\ \A i \in 1..Len(result) : result[i] \in Range(AllPriceChanges)
    /\ \A e \in Range(AllPriceChanges) :
         e \notin Range(result) =>
           /\ Len(result) = 10
           /\ e.yearly_impact <= result[10].yearly_impact

\* Charges of 1.99 and then 2.49 are reported as a rise of 0.50
C20_HalfDollarReported ==
  /\ pc = "priced"
  /\ \E i \in 1..Len(result) :
       /\ result[i].merchant = Netflix
       /\ result[i].old_price = 199
       /\ result[i].new_price = 249
       /\ result[i].increase = 50
       /\ Len(DistinctPricesOf(Netflix)) = 1
----------------------------------------------------------------------------
(* The share summary of a report with many leaks *)

\* _heuristic_analysis, then _generate_share_summary on its results
\* (analyze_transactions, lines 105 and 121)
ShareRun ==
  /\ pc = "leaks_input"
  /\ pc' = "shared"
  /\ \E subs \in {<<>>, <<LeakSubscription>>} :
       /\ subscriptions' = subs
       /\ heuristic' = _heuristic_analysis(transactions, subs)
       /\ result' = _generate_share_summary(
                      _heuristic_analysis(transactions, subs), subs)
  /\ UNCHANGED <<files, transactions, comparison, claude, calls, categorized,
                 other, prompts>>

ShareNext == LeaksAddRun \/ LeaksAddTxn \/ ShareRun

SpecShare == LeaksInit /\ [][ShareNext]_vars

\* The distinct categories of the leaks in rank order
LeakCategories(top_leaks) ==
  FirstOccurrences([i \in 1..Len(top_leaks) |-> top_leaks[i].category])

\* C21: top_categories holds the first three distinct categories of
\* top_leaks in rank order, fewer only when top_leaks has fewer than three
\* distinct categories; each entry has only a category and a monthly amount;
\* subscription_count is the number of subscriptions of confidence >= 0.6.
C21_TopThreeCategories ==
  pc = "shared" =>
    /\ [i \in 1..Len(result.top_categories) |-> result.top_categories[i].category]
         = Take(LeakCategories(heuristic.top_leaks), 3)
    /\ \A i \in 1..Len(result.top_categories) :
         DOMAIN result.top_categories[i] = {"category", "monthly"}
    /\ result.subscription_count
         = Cardinality({i \in 1..Len(subscriptions) :
                          subscriptions[i].confidence >= 60})

\* The five costliest leaks are fees, a subscription and a food-delivery
\* leak follow, and the summary lists the fees only
C21_OnlyFirstFiveLeaks ==
  /\ pc = "shared"
  /\ Len(LeakCategories(heuristic.top_leaks)) = 3
  /\ \A i \in 1..5 : heuristic.top_leaks[i].category = "Fees & Charges"
  /\ Len(result.top_categories) = 1
  /\ result.subscription_count = 1

----------------------------------------------------------------------------
(* The delimited-CSV parser (parser.py) *)

\* The cells of a data frame: an empty cell (NaN), a number, a number in
\* parentheses such as "(5.00)", text that is no number, and the text "$nan",
\* which float() reads as nan
EmptyCell == [kind |-> "empty", cents |-> 0]

NumberCell(cents) == [kind |-> "number", cents |-> cents]

ParensCell(cents) == [kind |-> "parens", cents |-> cents]

WordCell == [kind |-> "text", cents |-> 0]

NanCell == [kind |-> "nan", cents |-> 0]

\* A float that is a number of cents
Float(cents) == [is_nan |-> FALSE, cents |-> cents]

\* parse_amount: is_none for None, else the float
parse_amount(value) ==
  IF value.kind \in {"empty", "text"}
    THEN [is_none |-> TRUE, is_nan |-> FALSE, cents |-> 0]
  ELSE IF value.kind = "nan"
    THEN [is_none |-> FALSE, is_nan |-> TRUE, cents |-> 0]
  ELSE IF value.kind = "parens"
    THEN [is_none |-> FALSE, is_nan |-> FALSE, cents |-> 0 - value.cents]
  ELSE [is_none |-> FALSE, is_nan |-> FALSE, cents |-> value.cents]

\* parse_amount(...) or 0: None and 0.0 are falsy, nan is not
OrZero(parsed) ==
  IF parsed.is_none THEN Float(0)
  ELSE [is_nan |-> parsed.is_nan, cents |-> parsed.cents]

\* abs(amount) of a number of cents
Abs(x) == IF x < 0 THEN 0 - x ELSE x

\* abs(amount) of a float
AbsFloat(x) == [x EXCEPT !.cents = Abs(@)]

\* amount == 0, which is false for nan
IsZero(x) == ~x.is_nan /\ x.cents = 0

\* amount > 0, which is false for nan
IsPositive(x) == ~x.is_nan /\ x.cents > 0

\* row.get(col): the cell of the row in a column of the frame
CellOf(row, col) == row.cells[col]

\* The first of the scanned columns with an amount that is not None and
\* not 0 (lines 280-287); 0 when there is none
RECURSIVE FirstNumeric(_, _)
FirstNumeric(row, cols) ==
  IF cols = <<>> THEN Float(0)
  ELSE IF ~IsZero(OrZero(parse_amount(CellOf(row, Head(cols)))))
    THEN AbsFloat(OrZero(parse_amount(CellOf(row, Head(cols)))))
  ELSE FirstNumeric(row, Tail(cols))

\* lines 243-285: the amount of a row, 0 when the row is dropped (continue,
\* or amount is None or amount == 0).  With a debit and a credit column the
\* debit is taken when abs(debit) > 0; else the row is skipped, by continue
\* when abs(credit) > 0 and with amount None otherwise.
RowAmount(columns, row) ==
  IF "debit" \in Range(columns) /\ "credit" \in Range(columns)
    THEN IF IsPositive(AbsFloat(OrZero(parse_amount(CellOf(row, "debit")))))
           THEN AbsFloat(OrZero(parse_amount(CellOf(row, "debit"))))
           ELSE Float(0)
  ELSE IF "debit" \in Range(columns)
    THEN AbsFloat(OrZero(parse_amount(CellOf(row, "debit"))))
  ELSE IF "amount" \in Range(columns)
    THEN AbsFloat(OrZero(parse_amount(CellOf(row, "amount"))))
  ELSE FirstNumeric(row, columns)

\* lines 254-256: str(row.get(desc_col, '')) is empty or 'nan'
NoMerchant(row) == row.merchant = <<>>

RECURSIVE CsvTransactions(_, _)
CsvTransactions(columns, rows) ==
  IF rows = <<>> THEN <<>>
  ELSE (IF NoMerchant(Head(rows)) \/ IsZero(RowAmount(columns, Head(rows)))
          THEN <<>>
          ELSE << [date |-> Head(rows).date,
                   merchant |-> parser_normalize_merchant(Head(rows).merchant),
                   original_merchant |-> Strip(Head(rows).merchant),
                   amount |-> RowAmount(columns, Head(rows)).cents,
                   amount_is |-> IF RowAmount(columns, Head(rows)).is_nan
                                   THEN "nan" ELSE "number"] >>)
       \o CsvTransactions(columns, Tail(rows))

\* parse_csv of a frame with a date column, a description column and the
\* given further columns, in the order of the header
parse_csv(frame) == CsvTransactions(frame.columns, frame.rows)

MaxCsvRows == 2

\* The further columns of a frame
CsvColumns ==
  { <<>>, <<"balance">>, <<"credit">>, <<"debit">>, <<"amount">>,
    <<"debit", "credit">>, <<"credit", "amount">>, <<"debit", "amount">>,
    <<"debit", "credit", "amount">> }

CsvCells ==
  {EmptyCell, NumberCell(0), NumberCell(2000), ParensCell(500), WordCell,
   NanCell}

CsvMerchants == { <<>>, <<"S","Q"," ","*","C","a","f","e"," ">> }

CsvInit == pc = "csv_input" /\ Idle

\* The header of the file
CsvOpen ==
  /\ pc = "csv_input"
  /\ files = <<>>
  /\ \E columns \in CsvColumns :
       files' = <<[columns |-> columns, rows |-> <<>>]>>
  /\ UNCHANGED <<pc, transactions, subscriptions, comparison, heuristic,
                 claude, result, calls, categorized, other, prompts>>

\* One more line of the file
CsvAddRow ==
  /\ pc = "csv_input"
  /\ files # <<>>
  /\ Len(files[1].rows) < MaxCsvRows
  /\ \E merchant \in CsvMerchants :
       \E cells \in [Range(files[1].columns) -> CsvCells] :
         files' = <<[files[1] EXCEPT !.rows =
                       Append(@, [date |-> Ymd(2025, 1, 1),
                                  merchant |-> merchant,
                                  cells |-> cells])]>>
  /\ UNCHANGED <<pc, transactions, subscriptions, comparison, heuristic,
                 claude, result, calls, categorized, other, prompts>>

\* parse_csv(content)
CsvParse ==
  /\ pc = "csv_input"
  /\ files # <<>>
  /\ pc' = "parsed"
  /\ transactions' = parse_csv(files[1])
  /\ UNCHANGED <<files, subscriptions, comparison, heuristic, claude, result,
                 calls, categorized, other, prompts>>

CsvNext == CsvOpen \/ CsvAddRow \/ CsvParse

SpecCsv == CsvInit /\ [][CsvNext]_vars

\* The column the amount is taken from: the debit column when there is one,
\* else the single amount column
AmountColumn(columns) ==
  IF "debit" \in Range(columns) THEN "debit" ELSE "amount"

\* The rows with merchant text whose cell in the column is a nonzero number
RowsWithAmount(frame, col) ==
  SelectSeq(frame.rows,
            LAMBDA r : /\ r.merchant # <<>>
                       /\ ~OrZero(parse_amount(r.cells[col])).is_nan
                       /\ OrZero(parse_amount(r.cells[col])).cents # 0)

\* C22: with a debit and a credit column a row yields a transaction iff its
\* debit is nonzero, with amount |debit| (a row with only a credit is
\* skipped); with a debit column only, amount = |debit|; with a single
\* amount column, amount = |value|; rows whose amount is missing or zero are
\* dropped and every emitted amount is > 0.  Rows are those with merchant
\* text, in the order of the file.
C22_AmountPriority ==
  pc = "parsed" =>
    /\ \A i \in 1..Len(transactions) :
         AmountIs(transactions[i]) = "number" /\ transactions[i].amount > 0
    /\ ({"debit", "amount"} \cap Range(files[1].columns) # {}) =>
         LET kept == RowsWithAmount(files[1], AmountColumn(files[1].columns))
         IN /\ Len(transactions) = Len(kept)
            /\ \A i \in 1..Len(kept) :
                 transactions[i].amount
                   = Abs(OrZero(parse_amount(
                       kept[i].cells[AmountColumn(files[1].columns)])).cents)

\* A single amount column: a row with merchant text whose amount cell reads
\* "$nan" yields a transaction with the amount nan
C22_NanEmitted ==
  /\ pc = "parsed"
  /\ files[1].columns = <<"amount">>
  /\ Len(files[1].rows) = 1
  /\ files[1].rows[1].cells["amount"] = NanCell
  /\ Len(transactions) = 1
  /\ AmountIs(transactions[1]) = "nan"

\* No cell of the file reads as nan
NoNanCell ==
  \A i \in 1..Len(files[1].rows) :
    \A c \in Range(files[1].columns) : files[1].rows[i].cells[c] # NanCell

\* Without such a cell the claim holds
C22_NumbersPriority == (pc = "parsed" /\ NoNanCell) => C22_AmountPriority

\* A debit and a credit column: a row with a debit of (5.00) and a credit
\* yields 5.00, a row with a credit only yields nothing
C22_Witness ==
  /\ pc = "parsed"
  /\ files[1].columns = <<"debit", "credit">>
  /\ Len(files[1].rows) = 2
  /\ \A i \in 1..2 : files[1].rows[i].merchant # <<>>
  /\ files[1].rows[1].cells["debit"] = ParensCell(500)
  /\ files[1].rows[1].cells["credit"] = NumberCell(2000)
  /\ files[1].rows[2].cells["debit"] = EmptyCell
  /\ files[1].rows[2].cells["credit"] = NumberCell(2000)
  /\ Len(transactions) = 1
  /\ transactions[1].amount = 500

----------------------------------------------------------------------------
(* The months a leak is spread over *)

MaxMonths == 4

\* A fee merchant and a food-delivery merchant
MonthsMerchants ==
  << <<"A","T","M"," ","F","E","E">>, <<"D","O","O","R","D","A","S","H">> >>

\* The first day, then 30 and 60 days later, and a date that does not parse
MonthsDates ==
  <<Ymd(2025, 1, 1), Ymd(2025, 1, 31), Ymd(2025, 3, 2), JunkDate>>

\* The amount of an added transaction, in cents
MonthsAmounts == {900}

\* The transactions that were added one by one
MonthsAdded(txns) == SelectSeq(txns, LAMBDA t : t.amount \in MonthsAmounts)

MonthsInit == pc = "months_input" /\ Idle

\* The statement starts with ten purchases of 3.00 at the kiosk on one day
MonthsAddKioskRun ==
  /\ pc = "months_input"
  /\ transactions = <<>>
  /\ transactions' = KioskRun
  /\ UNCHANGED <<pc, files, subscriptions, comparison, heuristic, claude,
                 result, calls, categorized, other, prompts>>

\* One more charge of 9.00
MonthsAddTxn ==
  /\ pc = "months_input"
  /\ Len(MonthsAdded(transactions)) < MaxMonths
  /\ \E m \in Range(MonthsMerchants), d \in Range(MonthsDates),
        a \in MonthsAmounts :
       transactions' = Append(transactions, RawTxn(d, m, a))
  /\ UNCHANGED <<pc, files, subscriptions, comparison, heuristic, claude,
                 result, calls, categorized, other, prompts>>

\* _heuristic_analysis(transactions, [])
MonthsRun ==
  /\ pc = "months_input"
  /\ pc' = "done"
  /\ heuristic' = _heuristic_analysis(transactions, <<>>)
  /\ UNCHANGED <<files, transactions, subscriptions, comparison, claude,
                 result, calls, categorized, other, prompts>>

MonthsNext == MonthsAddKioskRun \/ MonthsAddTxn \/ MonthsRun

SpecMonths == MonthsInit /\ [][MonthsNext]_vars

\* The leaks of the three scans
ScanCategories ==
  {"Fees & Charges", "Food Delivery", "Small Frequent Purchases"}

\* Months covered as the specification has it: the days covered divided by
\* 30 and rounded down, at least 1, and 3 only when no date parses
MonthsCovered(txns) ==
  IF ParsedDates(txns) = <<>> THEN 3
  ELSE MaxOf({1, DaysCovered(txns) \div 30})

\* C23: for every fee, food-delivery and micro-purchase leak, monthly cost =
\* group total / months covered, months covered being floor(days covered / 30),
\* at least 1, and 3 only when none of the group's dates parses.
C23_MonthsCovered ==
  pc = "done" =>
    \A i \in 1..Len(heuristic.top_leaks) :
      LET leak == heuristic.top_leaks[i]
      IN leak.category \in ScanCategories =>
           leak.monthly_cost
             = RoundDiv(MerchantTotal(transactions, leak.merchant),
                        MonthsCovered(MerchantTxns(transactions, leak.merchant)))

\* One fee of 9.00 on a date that parses is reported at 3.00 a month
C23_SingleDayByThree ==
  /\ pc = "done"
  /\ Len(transactions) = 1
  /\ parse_date(transactions[1].date) # NoDate
  /\ Len(heuristic.top_leaks) = 1
  /\ heuristic.top_leaks[1].category = "Fees & Charges"
  /\ heuristic.top_leaks[1].monthly_cost = 300

\* C24: the months-covered divisor of the fee, food-delivery and
\* micro-purchase leaks is that of the full transaction set, so two merchants
\* with the same group total get the same monthly cost.
C24_GlobalMonths ==
  pc = "done" =>
    \A i \in 1..Len(heuristic.top_leaks) :
      LET leak == heuristic.top_leaks[i]
      IN leak.category \in ScanCategories =>
           /\ leak.monthly_cost
                = RoundDiv(MerchantTotal(transactions, leak.merchant),
                           _estimate_months(transactions))
           /\ \A j \in 1..Len(heuristic.top_leaks) :
                (/\ heuristic.top_leaks[j].category \in ScanCategories
                 /\ MerchantTotal(transactions, heuristic.top_leaks[j].merchant)
                      = MerchantTotal(transactions, leak.merchant))
                  => heuristic.top_leaks[j].monthly_cost = leak.monthly_cost

\* Two merchants with a total of 18.00 each, one charged 60 days apart and
\* one within 30 days, are reported at 9.00 and 18.00 a month
C24_SameTotalOtherCost ==
  /\ pc = "done"
  /\ Len(transactions) = 4
  /\ Len(heuristic.top_leaks) = 2
  /\ \A i \in 1..2 :
       /\ heuristic.top_leaks[i].category \in ScanCategories
       /\ MerchantTotal(transactions, heuristic.top_leaks[i].merchant) = 1800
  /\ heuristic.top_leaks[1].monthly_cost = 1800
  /\ heuristic.top_leaks[2].monthly_cost = 900
----------------------------------------------------------------------------
(* The transactions that analyze_transactions hands to the detectors *)

MaxFilter == 3

\* A subscription, a balance line, a merchant of digits and spaces, a merchant
\* of one character and a merchant without any keyword
FilterMerchants ==
  { <<"N","E","T","F","L","I","X">>,
    <<"C","l","o","s","i","n","g"," ","B","a","l","a","n","c","e">>,
    <<"1","2"," ","3","4">>, <<"K">>, <<"K","i","o","s","k">> }

FilterAmounts == {-500, 0, 1500}

\* A transaction with a number as amount, or with nan
FilterTxns ==
  {[OddTxn(Ymd(2025, 1, 1), m, "number") EXCEPT !.amount = a] :
     m \in FilterMerchants, a \in FilterAmounts}
  \cup {OddTxn(Ymd(2025, 1, 1), m, "nan") : m \in FilterMerchants}

FilterInit == pc = "filter_input" /\ Idle

FilterAddTxn ==
  /\ pc = "filter_input"
  /\ Len(transactions) < MaxFilter
  /\ \E t \in FilterTxns : transactions' = Append(transactions, t)
  /\ UNCHANGED <<pc, files, subscriptions, comparison, heuristic, claude,
                 result, calls, categorized, other, prompts>>

\* analyze_transactions, lines 86-95: categorized_txns, the list that is
\* handed to generate_category_summary, detect_subscriptions,
\* generate_month_comparison and _heuristic_analysis
FilterRun ==
  /\ pc = "filter_input"
  /\ pc' = "filtered"
  /\ categorized' = categorize_transactions(_filter_transactions(transactions))
  /\ UNCHANGED <<files, transactions, subscriptions, comparison, heuristic,
                 claude, result, calls, other, prompts>>

FilterNext == FilterAddTxn \/ FilterRun

SpecFilter == FilterInit /\ [][FilterNext]_vars

\* The transaction was categorized by the fallback `amount < 0` => Income
IncomeFallback(t) ==
  /\ AmountIs(t) = "number"
  /\ t.amount < 0
  /\ ~\E k \in 1..Len(CategoryOrder) :
        AnyKeyword(CategoryOrder[k].kws, Upper(t.merchant \o <<" ">>))

\* C25: every transaction that reaches categorization and the detectors
\* inside analyze_transactions has amount > 0, a merchant of at least 2
\* characters that is not purely digits and that contains no exclude keyword;
\* so the categorizer's fallback amount < 0 => Income is never taken there.
C25_OnlyPositiveReach ==
  pc = "filtered" =>
    \A i \in 1..Len(categorized) :
      LET t == categorized[i]
      IN /\ AmountIs(t) = "number" /\ t.amount > 0
         /\ Len(t.merchant) >= 2
         /\ ~IsAllDigits(RemoveSpaces(t.merchant))
         /\ ~AnyKeyword(EXCLUDE_KEYWORDS, Upper(t.merchant))
         /\ ~IncomeFallback(t)

\* A transaction with a nan amount passed the filter and was categorized
C25_NanReaches ==
  /\ pc = "filtered"
  /\ Len(transactions) = 1
  /\ Len(categorized) = 1
  /\ AmountIs(categorized[1]) = "nan"
  /\ categorized[1].category = "Subscriptions"

\* With numbers as amounts the claim holds
C25_NumbersPositive ==
  (pc = "filtered" /\ \A i \in 1..Len(transactions) :
                         AmountIs(transactions[i]) = "number")
    => C25_OnlyPositiveReach
----------------------------------------------------------------------------
(* pdf_parser._extract_from_text: the raw line scan *)

\* The words a line of the model is made of, separated by single spaces
ScanDates == {"01/07/2025", "01/07"}

ScanWords == {"COFFEE", "closing"}

ScanAmounts == {"12.50", "49,999.99", "50,000.00", "100,000.00", "100,000.01"}

\* len(line) of the stripped line
LineLength(line) ==
  SumSeq([i \in 1..Len(line) |-> Len(line[i])]) + Len(line) - 1

\* any(kw in line_lower for kw in EXCLUDE_KEYWORDS): 'closing' is in the list
HasExcludeKeyword(line) == \E i \in 1..Len(line) : line[i] = "closing"

\* The DATE_PATTERNS that match in a word, by position in the list:
\* \d{1,2}[/-]\d{1,2}[/-]\d{2,4} is the first and \d{1,2}/\d{1,2} the fifth
\* (01/07/2025 matches the fifth as well, the first is tried before it)
DatePattern(word) ==
  CASE word = "01/07/2025" -> 1
    [] word = "01/07" -> 5
    [] OTHER -> 0

\* _looks_like_date
_looks_like_date(line) == \E i \in 1..Len(line) : DatePattern(line[i]) > 0

\* lines 1104-1109: the first match of the first pattern that matches
DateOf(line) ==
  LET found == {i \in 1..Len(line) : DatePattern(line[i]) > 0}
      first == MinOf({DatePattern(line[i]) : i \in found})
  IN IF found = {} THEN ""
     ELSE line[MinOf({i \in found : DatePattern(line[i]) = first})]

\* re.findall(r'[\d,]+\.\d{2}', line)
AmountTokens(line) == SelectSeq(line, LAMBDA w : w \in ScanAmounts)

\* _parse_amount of an amount token, in cents
_parse_amount(amt_str) ==
  CASE amt_str = "12.50" -> 1250
    [] amt_str = "49,999.99" -> 4999999
    [] amt_str = "50,000.00" -> 5000000
    [] amt_str = "100,000.00" -> 10000000
    [] amt_str = "100,000.01" -> 10000001
    [] OTHER -> 0

\* line 1115: the reasonable transaction range
Reasonable(amt) == 0 < amt /\ amt < 5000000

\* lines 1112-1117: the first reasonable amount, 0 when there is none
RECURSIVE FirstReasonable(_)
FirstReasonable(amounts) ==
  IF amounts = <<>> THEN 0
  ELSE IF Reasonable(_parse_amount(Head(amounts)))
       THEN _parse_amount(Head(amounts))
       ELSE FirstReasonable(Tail(amounts))

\* lines 1122-1130: the line without its amounts and without its date
DescOf(line) ==
  SelectSeq(line, LAMBDA w : w \notin ScanAmounts /\ w # DateOf(line))

NoRow == [date |-> "", desc |-> <<>>, amount |-> 0]

\* lines 1087-1139 for one line, given the amount that was chosen: the row
\* that is appended, NoRow when the line is skipped
RowOf(line, amount) ==
  IF line = <<>> \/ LineLength(line) < 10 THEN NoRow
  ELSE IF HasExcludeKeyword(line) THEN NoRow
  ELSE IF AmountTokens(line) = <<>> \/ ~_looks_like_date(line) THEN NoRow
  ELSE IF amount = 0 THEN NoRow
  ELSE IF DescOf(line) = <<>> \/ LineLength(DescOf(line)) < 2 THEN NoRow
  ELSE [date |-> DateOf(line), desc |-> DescOf(line), amount |-> amount]

\* _extract_from_text: '' when no page has text, else the header and the rows
_extract_from_text(lines) ==
  LET rows == [i \in 1..Len(lines) |->
                 RowOf(lines[i], FirstReasonable(AmountTokens(lines[i])))]
  IN [header |-> \E i \in 1..Len(lines) : lines[i] # <<>>,
      rows |-> SelectSeq(rows, LAMBDA r : r # NoRow)]

MaxScanWords == 4

ScanInit == pc = "scan_input" /\ Idle

\* One more word on the last line of the text
ScanAddWord ==
  /\ pc = "scan_input"
  /\ files # <<>>
  /\ SumSeq([i \in 1..Len(files) |-> Len(files[i])]) < MaxScanWords
  /\ \E w \in ScanDates \cup ScanWords \cup ScanAmounts :
       files' = [files EXCEPT ![Len(files)] = Append(@, w)]
  /\ UNCHANGED <<pc, transactions, subscriptions, comparison, heuristic,
                 claude, result, calls, categorized, other, prompts>>

\* The text goes on with a new line
ScanAddLine ==
  /\ pc = "scan_input"
  /\ IF files = <<>> THEN TRUE ELSE files[Len(files)] # <<>>
  /\ SumSeq([i \in 1..Len(files) |-> Len(files[i])]) < MaxScanWords
  /\ files' = Append(files, <<>>)
  /\ UNCHANGED <<pc, transactions, subscriptions, comparison, heuristic,
                 claude, result, calls, categorized, other, prompts>>

\* _extract_from_text(pdf)
ScanRun ==
  /\ pc = "scan_input"
  /\ pc' = "scanned"
  /\ result' = _extract_from_text(files)
  /\ UNCHANGED <<files, transactions, subscriptions, comparison, heuristic,
                 claude, calls, categorized, other, prompts>>

ScanNext == ScanAddWord \/ ScanAddLine \/ ScanRun

SpecScan == ScanInit /\ [][ScanNext]_vars

\* The first amount of at most 100,000, 0 when there is none
RECURSIVE FirstUpTo100000(_)
FirstUpTo100000(amounts) ==
  IF amounts = <<>> THEN 0
  ELSE IF 0 < _parse_amount(Head(amounts))
            /\ _parse_amount(Head(amounts)) <= 10000000
       THEN _parse_amount(Head(amounts))
       ELSE FirstUpTo100000(Tail(amounts))

\* C26: the raw line scan emits a row only for a line with a date and an
\* amount token, with the first amount token of the line that is not
\* implausible, an amount being implausible exactly when it is greater than
\* 100,000.
C26_PlausibleUpTo100000 ==
  pc = "scanned" =>
    /\ \A r \in Range(result.rows) :
         \E i \in 1..Len(files) :
           /\ _looks_like_date(files[i])
           /\ AmountTokens(files[i]) # <<>>
           /\ r.amount = FirstUpTo100000(AmountTokens(files[i]))
    /\ result.rows =
         SelectSeq([i \in 1..Len(files) |->
                      RowOf(files[i], FirstUpTo100000(AmountTokens(files[i])))],
                   LAMBDA r : r # NoRow)

\* A line with a date, a description and the amount 50,000.00 gives no row
C26_FiftyThousandSkipped ==
  /\ pc = "scanned"
  /\ files = << <<"01/07/2025", "COFFEE", "50,000.00">> >>
  /\ result.rows = <<>>

\* With 50,000 in the place of 100,000 the claim holds
C26_Below50000 ==
  pc = "scanned" =>
    /\ \A r \in Range(result.rows) :
         \E i \in 1..Len(files) :
           /\ _looks_like_date(files[i])
           /\ AmountTokens(files[i]) # <<>>
           /\ r.amount = FirstReasonable(AmountTokens(files[i]))
           /\ r.amount < 5000000
    /\ \A i \in 1..Len(files) :
         (/\ _looks_like_date(files[i])
          /\ ~HasExcludeKeyword(files[i])
          /\ \E w \in ScanWords : w \in Range(files[i])
          /\ FirstReasonable(AmountTokens(files[i])) > 0)
           => \E r \in Range(result.rows) :
                r.amount = FirstReasonable(AmountTokens(files[i]))
----------------------------------------------------------------------------
(* Income in the analysis *)

MaxIncome == 3

\* A merchant with an Income keyword and one without any keyword
IncomeMerchants == { <<"S","A","L","A","R","Y">>, <<"K","i","o","s","k">> }

\* 30 days apart
IncomeDates == {Ymd(2025, 1, 1), Ymd(2025, 1, 31), Ymd(2025, 3, 2)}

IncomeAmounts == {1500, 20000}

IncomeInit == pc = "income_input" /\ Idle

IncomeAddTxn ==
  /\ pc = "income_input"
  /\ Len(transactions) < MaxIncome
  /\ \E m \in IncomeMerchants, d \in IncomeDates, a \in IncomeAmounts :
       transactions' = Append(transactions, RawTxn(d, m, a))
  /\ UNCHANGED <<pc, files, subscriptions, comparison, heuristic, claude,
                 result, calls, categorized, other, prompts>>

\* analyze_transactions(transactions, use_claude=False)
IncomeRun ==
  /\ pc = "income_input"
  /\ pc' = "done"
  /\ IF StartsEmpty(transactions)
       THEN /\ result' = _empty_result
            /\ UNCHANGED <<subscriptions, comparison, heuristic, categorized>>
       ELSE /\ categorized' =
                 categorize_transactions(_filter_transactions(transactions))
            /\ subscriptions' = detect_subscriptions(categorized')
            /\ comparison' = generate_month_comparison(categorized')
            /\ heuristic' = _heuristic_analysis(categorized', subscriptions')
            /\ result' = Report(heuristic',
                                generate_category_summary(categorized'),
                                subscriptions', comparison')
  /\ UNCHANGED <<files, transactions, claude, calls, other, prompts>>

IncomeNext == IncomeAddTxn \/ IncomeRun

SpecIncome == IncomeInit /\ [][IncomeNext]_vars

\* The categorized transactions that are not Income
Spending == SelectSeq(categorized, LAMBDA t : t.category # "Income")

\* The sum of the amounts of the spending of a month
SpendingOfMonth(key) ==
  SumSeq([i \in 1..Len(Spending) |->
            IF MonthKey(Spending[i]) = key THEN Spending[i].amount ELSE 0])

\* The Income transactions of a merchant key
IncomeOf(k) ==
  SelectSeq(categorized, LAMBDA t : t.category = "Income"
                                      /\ SubscriptionKey(t) = k)

\* C27: Income transactions are left out of the category summary and of the
\* month comparison, but not out of subscription detection, the leak scans
\* and top_spending: a merchant categorized as Income with equal positive
\* charges that satisfies a ladder rule is reported as a Subscription leak
\* and its amount is part of monthly_leak.
C27_IncomeStillALeak ==
  (pc = "done" /\ categorized # <<>>) =>
    /\ \A i \in 1..Len(result.category_summary) :
         result.category_summary[i].category # "Income"
    /\ SumSeq([i \in 1..Len(result.category_summary) |->
                 result.category_summary[i].transaction_count]) = Len(Spending)
    /\ comparison # None =>
         /\ comparison.current_total = SpendingOfMonth(comparison.current_month)
         /\ comparison.previous_total = SpendingOfMonth(comparison.previous_month)
         /\ \A c \in comparison.category_changes : c.category # "Income"
    /\ result.top_spending = _get_top_spending(categorized)
    /\ \A k \in {SubscriptionKey(categorized[i]) : i \in 1..Len(categorized)} :
         LET income == IncomeOf(k)
         IN (/\ Len(income) >= 2
             /\ \A i \in 1..Len(income) : income[i].amount = income[1].amount)
              => /\ \E i \in 1..Len(subscriptions) :
                      /\ subscriptions[i].merchant = k
                      /\ subscriptions[i].confidence >= 70
                 /\ \E i \in 1..Len(result.top_leaks) :
                      /\ result.top_leaks[i].category = "Subscription"
                      /\ result.top_leaks[i].merchant = k
                      /\ result.top_leaks[i].monthly_cost = income[1].amount
                 /\ result.monthly_leak
                      = SumSeq([i \in 1..Len(result.top_leaks) |->
                                  result.top_leaks[i].monthly_cost])
                 /\ result.monthly_leak >= income[1].amount

\* A salary of 200.00 credited three times 30 days apart is the one leak of
\* the report, and the category summary is empty
C27_SalaryLeak ==
  /\ pc = "done"
  /\ Len(categorized) = 3
  /\ \A i \in 1..3 : categorized[i].category = "Income"
  /\ Len(subscriptions) = 1
  /\ subscriptions[1].confidence = 85
  /\ Len(result.top_leaks) = 1
  /\ result.top_leaks[1].category = "Subscription"
  /\ result.top_leaks[1].merchant = <<"S","A","L","A","R","Y">>
  /\ result.monthly_leak = 20000
  /\ result.category_summary = <<>>
  /\ Len(result.top_spending) = 3
----------------------------------------------------------------------------
(* The totals of the heuristic analysis *)

\* The sum of the monthly costs of a list of leaks
MonthlyCosts(leaks) == SumSeq([i \in 1..Len(leaks) |-> leaks[i].monthly_cost])

\* C28: monthly_leak and annual_savings are computed over all detected leaks,
\* those cut from top_leaks by the cap of 10 included: monthly_leak is at
\* least the sum of the monthly costs of the returned top_leaks, equal to it
\* when at most 10 leaks were detected, and annual_savings is 12 times
\* monthly_leak.
C28_TotalsOverAllLeaks ==
  pc = "done" =>
    /\ heuristic.monthly_leak = MonthlyCosts(FoundLeaks)
    /\ heuristic.monthly_leak >= MonthlyCosts(heuristic.top_leaks)
    /\ Len(FoundLeaks) <= 10 =>
         heuristic.monthly_leak = MonthlyCosts(heuristic.top_leaks)
    /\ heuristic.annual_savings = 12 * heuristic.monthly_leak

\* Twelve leaks are detected, ten are returned, and monthly_leak is more than
\* the ten add up to
C28_CutLeaksCounted ==
  /\ pc = "done"
  /\ Len(FoundLeaks) = 12
  /\ Len(heuristic.top_leaks) = 10
  /\ heuristic.monthly_leak > MonthlyCosts(heuristic.top_leaks)
  /\ heuristic.annual_savings = 12 * MonthlyCosts(FoundLeaks)
----------------------------------------------------------------------------
(* Merging an enrichment into many leaks *)

\* Enhanced leaks of a merchant of the run that is charged 9.00, of one that
\* is charged 3.00, and of a merchant the statement does not have
MergeLeaks ==
  << [category |-> "Fees & Charges", merchant |-> LeakMerchants[1],
      monthly_cost |-> 5000, yearly_cost |-> 60000],
     [category |-> "Food Delivery", merchant |-> LeakMerchants[8],
      monthly_cost |-> 4000, yearly_cost |-> 48000],
     LeakNew >>

\* The enrichments: no leak, one leak, or two leaks in either order
MergeEnrichments ==
  {Enrichment(<<>>, <<>>, <<>>)}
    \cup {Enrichment(<<MergeLeaks[i]>>, <<>>, <<>>) : i \in 1..3}
    \cup {Enrichment(<<MergeLeaks[i], MergeLeaks[j]>>, <<>>, <<>>) :
            i, j \in 1..3}

\* analyze_transactions, lines 104-111: the heuristic analysis and the merge
\* of the enrichment that get_claude_analysis returned
MergeRun ==
  /\ pc = "leaks_input"
  /\ pc' = "merged"
  /\ \E subs \in {<<>>, <<LeakSubscription>>}, c \in MergeEnrichments :
       /\ subscriptions' = subs
       /\ claude' = c
       /\ heuristic' = _heuristic_analysis(transactions, subs)
       /\ result' = Enhance(heuristic', c)
  /\ UNCHANGED <<files, transactions, comparison, calls, categorized, other,
                 prompts>>

MergeNext == LeaksAddRun \/ LeaksAddTxn \/ MergeRun

SpecMerge == LeaksInit /\ [][MergeNext]_vars

\* The merchants of the leaks the heuristic analysis returned
ReturnedMerchants ==
  {heuristic.top_leaks[i].merchant : i \in 1..Len(heuristic.top_leaks)}

\* The merchants of the leaks that were detected and cut by the cap
CutMerchants ==
  {FoundLeaks[i].merchant : i \in 1..Len(FoundLeaks)} \ ReturnedMerchants

\* The enhanced leaks of a merchant that is not among the returned leaks
AcceptedLeaks ==
  SelectSeq(claude.enhanced_leaks, LAMBDA leak : leak.merchant \notin ReturnedMerchants)

\* C29: the merged top_leaks start with the heuristic top_leaks in their
\* order, followed by every accepted enhanced leak in the order received,
\* neither sorted again by monthly cost nor cut to 10; an enhanced leak is
\* accepted when its merchant is not among the (capped) top_leaks, also when
\* a leak of that merchant was counted in monthly_leak and cut by the cap.
C29_MergeAppendsAfter ==
  pc = "merged" =>
    LET top == heuristic.top_leaks
        merged == result.top_leaks
    IN /\ Len(merged) = Len(top) + Len(AcceptedLeaks)
       /\ SubSeq(merged, 1, Len(top)) = top
       /\ \A i \in 1..Len(AcceptedLeaks) :
            /\ merged[Len(top) + i].merchant = AcceptedLeaks[i].merchant
            /\ merged[Len(top) + i].monthly_cost = AcceptedLeaks[i].monthly_cost
       /\ \A i \in 1..Len(claude.enhanced_leaks) :
            claude.enhanced_leaks[i].merchant \in CutMerchants =>
              \E j \in (Len(top) + 1)..Len(merged) :
                merged[j].merchant = claude.enhanced_leaks[i].merchant

\* Twelve leaks were detected and ten returned; two enhanced leaks, one of a
\* merchant whose leak was cut, are appended as entries 11 and 12, each
\* costlier than the entry before it
C29_AppendedBeyondTen ==
  /\ pc = "merged"
  /\ Len(FoundLeaks) = 12
  /\ Len(heuristic.top_leaks) = 10
  /\ Len(result.top_leaks) = 12
  /\ result.top_leaks[11].merchant = LeakNew.merchant
  /\ result.top_leaks[12].merchant \in CutMerchants
  /\ result.top_leaks[11].monthly_cost > result.top_leaks[10].monthly_cost
----------------------------------------------------------------------------
(* Periodicity of a group *)

MaxPeriod == 3

\* A merchant without keyword and one with a recurring-payment keyword
PeriodMerchants == {DetectMerchants[3], DetectMerchants[2]}

\* The first day, 1, 30 and 60 days later, and a date that does not parse
PeriodDates ==
  {Ymd(2025, 1, 1), Ymd(2025, 1, 2), Ymd(2025, 1, 31), Ymd(2025, 3, 2),
   JunkDate}

PeriodAmounts == {9000, 10400}

PeriodAddTxn ==
  /\ pc = "detect_input"
  /\ Len(transactions) < MaxPeriod
  /\ \E m \in PeriodMerchants, d \in PeriodDates, a \in PeriodAmounts :
       transactions' = Append(transactions, RawTxn(d, m, a))
  /\ UNCHANGED <<pc, files, subscriptions, comparison, heuristic, claude,
                 result, calls, categorized, other, prompts>>

PeriodNext == PeriodAddTxn \/ DetectRun

SpecPeriod == DetectInit /\ [][PeriodNext]_vars

\* The days from the earliest to the latest parseable date of group k
SpanOf(k) ==
  LET days == {Ordinal(d) : d \in Range(DatesOf(k))}
  IN MaxOf(days) - MinOf(days)

\* Periodic by the two ends: 25 (n - 1) <= span <= 35 (n - 1) for n >= 2 dates
PeriodicByEnds(k) ==
  LET n == Len(DatesOf(k))
  IN /\ n >= 2
     /\ 25 * (n - 1) <= SpanOf(k)
     /\ SpanOf(k) <= 35 * (n - 1)

\* C30: the periodicity of a group depends only on its earliest and latest
\* parseable dates and on the number n >= 2 of parseable dates: it is periodic
\* iff 25 (n - 1) <= latest - earliest <= 35 (n - 1), however the charges are
\* spaced in between; the occurrence thresholds of the ladder count all
\* transactions of the group, those without a parseable date included.
C30_PeriodicByEnds ==
  pc = "detected" =>
    \A k \in GroupKeys :
      /\ IsPeriodic(DatesOf(k)) <=> PeriodicByEnds(k)
      /\ (~IsKnown(k) /\ ~IsRecurring(k)) =>
           /\ (/\ Len(AmountsOf(k)) >= 3
               /\ IsConsistent(AmountsOf(k))
               /\ PeriodicByEnds(k)) <=> ReportedConfidence(k) = 85
      /\ (~IsKnown(k) /\ IsRecurring(k)) =>
           /\ (Len(AmountsOf(k)) >= 3 /\ PeriodicByEnds(k))
                <=> ReportedConfidence(k) = 90

\* Three equal charges 1 and 59 days apart are a recurring pattern
C30_IrregularIsPeriodic ==
  /\ pc = "detected"
  /\ Len(transactions) = 3
  /\ \E k \in GroupKeys :
       /\ ~IsKnown(k) /\ ~IsRecurring(k)
       /\ Len(DatesOf(k)) = 3
       /\ Range(Intervals(DatesOf(k))) = {1, 59}
       /\ ReportedConfidence(k) = 85

\* Two charges 30 days apart and a third without a date are one as well
C30_UndatedCounts ==
  /\ pc = "detected"
  /\ Len(transactions) = 3
  /\ \E k \in GroupKeys :
       /\ ~IsKnown(k) /\ ~IsRecurring(k)
       /\ Len(DatesOf(k)) = 2
       /\ SpanOf(k) = 30
       /\ ReportedConfidence(k) = 85
====
